---- MODULE Spec2Model ----
(***************************************************************************)
(* Model of the acquisition/broadcast engine of amdgputop-web:             *)
(*   - the sampler manager      (internal/sampler/sample.go)               *)
(*   - the process-scan manager (internal/procscan/manager.go)             *)
(*   - the WebSocket session    (internal/httpserver/server.go)            *)
(*                                                                         *)
(* Samples and snapshots are abstracted to their publish sequence number   *)
(* (1, 2, ...); 0 stands for "no value".  Mutex-protected critical         *)
(* sections that contain no blocking operation are single steps; a step    *)
(* boundary is kept wherever the code can be interleaved with another      *)
(* goroutine touching the same data (channel operations of send, the two   *)
(* locks taken by removeSubscriber).                                       *)
(***************************************************************************)
EXTENDS Integers, Sequences, FiniteSets, Bags, TLC

\* ------------------------------------------------------------------ bounds
MaxPub   == 2      \* acquisition ticks in all (samples taken plus scans started), Spec
MaxTicks == 1      \* the same while a session runs, SessionSpec
MaxSubs  == 1      \* free-standing subscribers created per manager (Spec)
MaxUnsub == 2      \* unsubscribe calls of free-standing subscribers, in all
MaxMsgs  == 1      \* inbound frames a client sends on one session
MaxScans == 3      \* scanner ticks, failed ones included (ScanSpec)
MaxFds   == 3      \* matched descriptors read by scanProcess, in all
MaxCalls == 2      \* scanProcess calls of one pid that return (CollectSpec)
MaxProcs == 3      \* processes of one device handed to sort.Slice (SortSpec)
maxWSClients == 2  \* cfg.WS.MaxClients, the session limit (positive)

\* --------------------------------------------------------------- constants
SubCap == 1        \* make(chan Sample, 1) / make(chan Snapshot, 1)

Mgrs     == {"sampler", "proc"}
Devices  == {"A", "B", "C"}        \* gpu.Discover output (s.gpus, m.gpuIDs)
Readers  == {"A", "B"}             \* m.readers: devices whose Reader was built
GpuOrder == <<"A", "B", "C">>      \* m.gpuIDs, the scan order of performScan
ProcEnable == TRUE                 \* cfg.Proc.Enable

\* the process scanner's inputs
ScanInterval == 2                  \* cfg.Proc.ScanInterval, in seconds
ZeroTime == 0                      \* time.Time{}
StartTime == 1                     \* time.Now() of the first performScan
TickGaps == {ScanInterval}         \* seconds between two ticks
Pids == {3, 5}                     \* processes that may hold a GPU descriptor
ProcGpus == {"A", "B"}             \* devices they may hold one on
EngineTotals == {50000000, 400000000}  \* cumulative engine time read, in ns
NoTotal == -1                      \* a pid without entry in a totals map

\* what parseFDInfo may return for a matched descriptor
ClientIds == {0, 7, 8}             \* drm-client-id; 0: the descriptor has none
MemReads == {<<0, 0>>, <<128, 64>>, <<200, 0>>}  \* <<VRAM, GTT>>, in MiB
EngineReads == {NoTotal, 0}        \* engine time in ns; NoTotal: no engine line
ScannedPid == 3                    \* the pid whose directory scanProcess reads

\* the processes of one device before they are sorted
SortPids == {3, 5, 9, 11}
MemSplits == {<<10, 0>>, <<0, 10>>, <<30, 0>>, <<0, 30>>, <<20, 10>>}

\* subscriber objects: a session creates one per successful switch
PoolSize == IF MaxSubs > MaxMsgs + 1 THEN MaxSubs ELSE MaxMsgs + 1
SubIds  == 1..PoolSize
Free    == "free"         \* an unlocked subscriber.mu
Unlocked == 0             \* an unlocked Manager.mu
NoGpu   == "none"

\* connection attempts: one more than the limit admits
Conns == 1..(maxWSClients + 1)

\* one sampling goroutine per reader (named by its gpu), one scanner goroutine
ProcThread == "proc"
Threads == Readers \cup {ProcThread}

VARIABLES
  latest,        \* Manager.latest: [Mgrs -> [Devices -> 0..MaxPub]]
  subscribers,   \* Manager.subscribers: [Mgrs -> [Devices -> SUBSET SubIds]]
  mu,            \* Manager.mu: Unlocked or the subscriber whose removal holds it
  lastScan,      \* procscan Manager.lastScan (0 = zero time)
  subGpu,        \* the gpuID a subscriber was created for (NoGpu = not created)
  chan,          \* subscriber.ch: the buffered values of the mailbox
  subClosed,     \* subscriber.closed
  chanClosed,    \* whether close(s.ch) has run
  subMu,         \* subscriber.mu: Free or the thread holding it
  pub,           \* acquisition goroutines: [Threads -> record]
  panicked,      \* a send on a closed channel or a double close happened
  \* history of the deliveries, for stating the contracts
  lastSend,      \* value of the last send() call that returned, per subscriber
  sinceRecv,     \* number of send() calls returned since the last receive
  puts,          \* values actually placed into the mailbox, in order
  recvd,         \* values received by the consumer, in order
  cachedAtSub,   \* latest[gpu] at the moment of Subscribe
  liveBefore,    \* a live send touched the mailbox before the first receive
  unsubCalls,    \* unsubscribe() calls started, per free-standing subscriber
  hist,          \* how much of the history is kept: "full", "count", "none"
  \* one WebSocket session (handleWS and its reader and writer goroutines)
  sPc,             \* where the handleWS goroutine is
  subCh,           \* handleWS subCh: the sampler subscriber read, 0 = nil
  unsubscribe,     \* handleWS unsubscribe: its subscriber, 0 = nil
  procCh,          \* handleWS procCh, 0 = nil
  procUnsubscribe, \* handleWS procUnsubscribe, 0 = nil
  currentGPU,      \* handleWS currentGPU, NoGpu = ""
  swTarget,        \* the target of the switchSubscription call under way
  outQ,            \* wsOutbound.ch contents
  outClosed,       \* wsOutbound.closed
  ctxDone,         \* the session context is cancelled
  wPc,             \* wsWriter goroutine: "run", "done", "failed"
  rPc,             \* readMessages goroutine: "off", "run", "done"
  messageCh,       \* frames read and not yet handled
  messageChState,  \* "open", "closed" (reader gone), "nil" (handleWS saw it)
  readErrCh,       \* the error of a failed read, not yet seen by handleWS
  inSent,          \* frames the client has sent
  sw,              \* history: state before the last switch, and its result
  \* admission of WebSocket connections (reserveWS / releaseWS)
  wsActive,        \* Server.wsActive
  wsRejected,      \* Server.wsRejected
  att,             \* connection attempts: where each handleWS call is
  \* the process scanner's data (collector.collect, Manager.performScan)
  procfs,          \* what collect() finds now: readable or not, the processes
  tickGap,         \* seconds from the previous tick to the next one
  clock,           \* time of the last tick (the now of the last performScan)
  scan,            \* locals of the performScan call under way
  lastScanTime,    \* procscan Manager.lastScan as a time (ZeroTime = zero)
  prevEngine,      \* procscan Manager.prevEngine: [Devices -> [Pids -> total]]
  snap,            \* the Snapshot held in procscan Manager.latest, per device
  scanWarns,       \* "process scan failed" warnings logged
  seen,            \* history: the last two successful collections, and the
                   \* <<pid, device>> pairs with engine totals before them
  \* one process directory read by collector.scanProcess
  result,          \* scanProcess: result, a map gpuID -> rawProcess
  clientTotals,    \* scanProcess: clientTotals, gpuID -> client-id -> maxima
  fdHist,          \* history: the descriptors read by this call and in all,
                   \* the maxima over all calls, the calls that returned
  sorting,         \* performScan: processes, before and after sort.Slice
  stopped,         \* per manager: Run's ctx and Close: "running", "cancelled"
                   \* (ctx.Done() is closed), "closed" (Close has returned)
  wire,            \* history: what the writer has transmitted, what the
                   \* outbound queue has dropped, the pings read, the frame
                   \* handled last
  walk,            \* collector.collect: the /proc entries and the loop over
                   \* them
  parse            \* parseFDInfo: the lines of an fdinfo text, the loop over
                   \* them, the section and the metrics

mgrVars  == <<latest, subscribers, mu, lastScan, subGpu, chan, subClosed,
              chanClosed, subMu, pub, panicked>>
histVars == <<lastSend, sinceRecv, puts, recvd, cachedAtSub, liveBefore>>
cliVars  == <<unsubCalls, hist>>
sessVars == <<sPc, subCh, unsubscribe, procCh, procUnsubscribe, currentGPU,
              swTarget, outQ, outClosed, ctxDone, wPc, rPc, messageCh,
              messageChState, readErrCh, inSent, sw>>
admVars  == <<wsActive, wsRejected, att>>
scanVars == <<procfs, tickGap, clock, scan, lastScanTime, prevEngine, snap,
              scanWarns, seen>>
\* what the session never touches
colVars == <<result, clientTotals, fdHist>>
\* what only its own specification moves
sideVars == <<colVars, sorting, stopped, wire, walk, parse>>
\* what the session touches only in its history
farVars == <<cliVars, admVars, scanVars, colVars, sorting, stopped, walk,
             parse>>
restVars == <<cliVars, admVars, scanVars, sideVars>>
\* what the goroutines of a manager never touch
userVars == <<restVars, sessVars>>
\* what a scan never touches outside its manager
quietVars == <<cliVars, admVars, sessVars, sideVars>>
vars     == <<mgrVars, histVars, cliVars, sessVars, admVars, scanVars,
              sideVars>>

Mgr(t) == IF t = ProcThread THEN "proc" ELSE "sampler"

IdlePub == [pc |-> "idle", gpu |-> NoGpu, val |-> 0, idx |-> 0,
            targets |-> {}, cur |-> 0]

\* ------------------------------------------------------- channel semantics
\* select { case s.ch <- v: default: }
TrySend(ch, v) == IF Len(ch) < SubCap THEN Append(ch, v) ELSE ch

DropOldestKeep(ch) == ch
\* select { case <-s.ch: default: }
DropOldest(ch) == IF Len(ch) > 0 THEN Tail(ch) ELSE ch

SendReadyWhenRoom(ch) == Len(ch) < SubCap
\* every channel operation of send sits in a select with a default branch:
\* send never waits for room in the mailbox
SendReady(ch) == TRUE

\* subscriber.send entered with the closed flag set returns at once
SendSkipsNever(closedFlag) == FALSE
SendSkips(closedFlag) == closedFlag

\* subscriber.close closes the channel only when the flag is not yet set
CloseRunsAlways(closedFlag) == TRUE
CloseRuns(closedFlag) == ~closedFlag

ReplayNone(cached) == <<>>
\* Subscribe: if sample, ok := m.latest[gpuID]; ok { sub.send(sample) }
Replay(cached) == IF cached # 0 THEN TrySend(<<>>, cached) ELSE <<>>

\* Subscribe's admission test of the two managers
SubscribeOK(m, k) ==
  IF m = "sampler" THEN k \in Readers
  ELSE ProcEnable /\ k \in {GpuOrder[i] : i \in 1..Len(GpuOrder)}

TargetsNone(m, k) == {}
\* storeSample / publish: the subscribers copied under the lock
Targets(m, k) == subscribers[m][k]

\* --------------------------------------------------------------------- Init
InitMgr ==
  /\ latest      = [m \in Mgrs |-> [k \in Devices |-> 0]]
  /\ subscribers = [m \in Mgrs |-> [k \in Devices |-> {}]]
  /\ mu          = [m \in Mgrs |-> Unlocked]
  /\ lastScan    = 0
  /\ subGpu      = [m \in Mgrs |-> [s \in SubIds |-> NoGpu]]
  /\ chan       = [m \in Mgrs |-> [s \in SubIds |-> <<>>]]
  /\ subClosed   = [m \in Mgrs |-> [s \in SubIds |-> FALSE]]
  /\ chanClosed  = [m \in Mgrs |-> [s \in SubIds |-> FALSE]]
  /\ subMu       = [m \in Mgrs |-> [s \in SubIds |-> Free]]
  /\ pub         = [t \in Threads |-> IdlePub]
  /\ panicked    = FALSE

InitHist ==
  /\ lastSend    = [m \in Mgrs |-> [s \in SubIds |-> 0]]
  /\ sinceRecv   = [m \in Mgrs |-> [s \in SubIds |-> 0]]
  /\ puts        = [m \in Mgrs |-> [s \in SubIds |-> <<>>]]
  /\ recvd       = [m \in Mgrs |-> [s \in SubIds |-> <<>>]]
  /\ cachedAtSub = [m \in Mgrs |-> [s \in SubIds |-> 0]]
  /\ liveBefore  = [m \in Mgrs |-> [s \in SubIds |-> FALSE]]

InitCli ==
  /\ unsubCalls = [m \in Mgrs |-> [s \in SubIds |-> 0]]

NoSwitch == [gpu |-> NoGpu, sub |-> 0, proc |-> 0, result |-> "none"]

\* handleWS up to the creation of the outbound queue and of the writer
InitSess ==
  /\ sPc = "start"
  /\ subCh = 0
  /\ unsubscribe = 0
  /\ procCh = 0
  /\ procUnsubscribe = 0
  /\ currentGPU = NoGpu
  /\ swTarget = NoGpu
  /\ outQ = <<>>
  /\ outClosed = FALSE
  /\ ctxDone = FALSE
  /\ wPc = "run"
  /\ rPc = "off"
  /\ messageCh = <<>>
  /\ messageChState = "open"
  /\ readErrCh = <<>>
  /\ inSent = 0
  /\ sw = NoSwitch

\* no connection has been attempted yet
NewAttempt == [pc |-> "new", cur |-> 0, loads |-> 0]

InitAdm ==
  /\ wsActive = 0
  /\ wsRejected = 0
  /\ att = [c \in Conns |-> NewAttempt]


\* ------------------------------------------------ the scanner's data path
\* the devices a pid may hold a descriptor on: the lowest pid on any
PidGpus(p) == IF \A q \in Pids : p <= q THEN ProcGpus ELSE {GpuOrder[1]}

\* a rawProcess of collector.collect without memory data
Raw(p, o) ==
  [pid |-> p, gpu |-> o.gpu, hasMemory |-> FALSE, vramBytes |-> 0,
   gttBytes |-> 0, hasEngine |-> o.e # NoTotal,
   engineTotal |-> IF o.e = NoTotal THEN 0 ELSE o.e]

\* what collect() may find: each pid absent, or on one device with or
\* without engine time
ProcStates ==
  { {Raw(p, f[p]) : p \in {q \in Pids : f[q].gpu # NoGpu}} :
      f \in {g \in [Pids -> [gpu : ProcGpus \cup {NoGpu},
                              e : EngineTotals \cup {NoTotal}]] :
               \A p \in Pids : g[p].gpu \in PidGpus(p) \cup {NoGpu}} }

\* what the process root may look like to collect()
ProcFs ==
  {[ok |-> TRUE, procs |-> ps] : ps \in ProcStates}
    \cup {[ok |-> FALSE, procs |-> {}]}

\* the <<pid, device>> pairs of a collection that carry an engine total
EnginePairs(sn) == {<<r.pid, r.gpu>> : r \in {x \in sn.procs : x.hasEngine}}

NoTotals == [p \in Pids |-> NoTotal]
NoRate == [ok |-> FALSE, ms |-> 0, per |-> 0]
NoScan == [now |-> ZeroTime, elapsed |-> 0, procs |-> {}]
NoSeen == [ok |-> FALSE, now |-> ZeroTime, procs |-> {}]
NoSnapshot ==
  [ok |-> FALSE, gpu |-> NoGpu, timestamp |-> ZeroTime, vramGtt |-> FALSE,
   engineTime |-> FALSE, processes |-> <<>>]

CollectFailsNever(fs) == FALSE
\* collect(): fs.ReadDir of the process root fails
CollectFails(fs) == ~fs.ok

\* performScan: elapsedSeconds
ElapsedSeconds(now, prevScan) ==
  IF prevScan # ZeroTime
  THEN IF now - prevScan <= 0 THEN ScanInterval ELSE now - prevScan
  ELSE 0

BaselineAny(total, prevTotal) == TRUE
\* performScan: ok && raw.engineTotal >= prevTotal
BaselineOK(total, prevTotal) == total >= prevTotal

RatePerInterval(elapsedSeconds) == ScanInterval
\* performScan: value := ms / elapsedSeconds
RatePer(elapsedSeconds) == elapsedSeconds

\* performScan: proc.GPUTimeMSPerS; the quotient ms / per is kept as the pair
GPUTimeMSPerS(raw, prev, elapsedSeconds) ==
  IF /\ raw.hasEngine
     /\ elapsedSeconds > 0
     /\ prev[raw.pid] # NoTotal
     /\ BaselineOK(raw.engineTotal, prev[raw.pid])
  THEN [ok |-> TRUE, ms |-> (raw.engineTotal - prev[raw.pid]) \div 1000000,
        per |-> RatePer(elapsedSeconds)]
  ELSE NoRate

\* performScan: the Process built from a rawProcess
Process(raw, prev, elapsedSeconds) ==
  [pid |-> raw.pid, hasMem |-> raw.hasMemory,
   vram |-> IF raw.hasMemory THEN raw.vramBytes ELSE 0,
   gtt |-> IF raw.hasMemory THEN raw.gttBytes ELSE 0,
   rate |-> GPUTimeMSPerS(raw, prev, elapsedSeconds)]

\* performScan: nextTotals
NextTotals(raws) ==
  [p \in Pids |->
     IF \E r \in raws : r.pid = p /\ r.hasEngine
     THEN (CHOOSE r \in raws : r.pid = p /\ r.hasEngine).engineTotal
     ELSE NoTotal]

StoreTotalsKeep(old, next) == IF next = NoTotals THEN old ELSE next
\* publish: delete(m.prevEngine, gpu) when there are no totals, else replace
StoreTotals(old, next) == IF next = NoTotals THEN NoTotals ELSE next

\* the comparison function handed to sort.Slice
SortKey(p) == IF p.hasMem THEN p.vram ELSE 0
Less(p, q) ==
  IF SortKey(p) = SortKey(q) THEN p.pid < q.pid ELSE SortKey(p) > SortKey(q)

RECURSIVE Insert(_, _)
Insert(p, sq) ==
  IF sq = <<>> THEN <<p>>
  ELSE IF Less(p, Head(sq)) THEN <<p>> \o sq
       ELSE <<Head(sq)>> \o Insert(p, Tail(sq))

\* sort.Slice(processes, less)
RECURSIVE SortSlice(_)
SortSlice(sq) ==
  IF sq = <<>> THEN <<>> ELSE Insert(Head(sq), SortSlice(Tail(sq)))

\* col.processes: the processes in the order collect() met them
RECURSIVE InPidOrder(_)
InPidOrder(raws) ==
  IF raws = {} THEN <<>>
  ELSE LET r == CHOOSE x \in raws : \A y \in raws : x.pid <= y.pid IN
       <<r>> \o InPidOrder(raws \ {r})

\* performScan: the Snapshot of one device
BuildSnapshot(gpu, sc, prev) ==
  LET raws == {r \in sc.procs : r.gpu = gpu}
      col == InPidOrder(raws) IN
  [ok |-> TRUE, gpu |-> gpu, timestamp |-> sc.now,
   vramGtt |-> \E r \in raws : r.hasMemory,
   engineTime |-> \E r \in raws : r.hasEngine,
   processes |-> SortSlice([i \in 1..Len(col) |->
                              Process(col[i], prev, sc.elapsed)])]

\* NewManager of procscan, and the world it starts in
InitScan ==
  /\ procfs = [ok |-> TRUE, procs |-> {}]
  /\ tickGap = ScanInterval
  /\ clock = ZeroTime
  /\ scan = NoScan
  /\ lastScanTime = ZeroTime
  /\ prevEngine = [k \in Devices |-> NoTotals]
  /\ snap = [k \in Devices |-> NoSnapshot]
  /\ scanWarns = 0
  /\ seen = [cur |-> NoSeen, prev |-> NoSeen, older |-> {}]

\* ---------------------------------------------- scanProcess of the collector
\* Go maps: a missing key reads as the zero value
Get(f, k, zero) == IF k \in DOMAIN f THEN f[k] ELSE zero
Put(f, k, v) == [x \in DOMAIN f \cup {k} |-> IF x = k THEN v ELSE f[x]]
EmptyMap == [x \in {} |-> 0]

\* fdMetrics of a descriptor with engine lines only, or with none
EngineOnly ==
  {[VRAMBytes |-> 0, GTTBytes |-> 0, HasMemory |-> FALSE,
    EngineTotal |-> IF e = NoTotal THEN 0 ELSE e, HasEngine |-> e # NoTotal,
    ClientID |-> 0] : e \in EngineReads}
\* ... with memory lines only, with or without client-id
MemoryOnly ==
  {[VRAMBytes |-> x[1][1], GTTBytes |-> x[1][2], HasMemory |-> TRUE,
    EngineTotal |-> 0, HasEngine |-> FALSE, ClientID |-> x[2]] :
      x \in MemReads \X ClientIds}
\* ... of an idle client: every line present, every value zero
IdleClient ==
  {[VRAMBytes |-> 0, GTTBytes |-> 0, HasMemory |-> TRUE, EngineTotal |-> 0,
    HasEngine |-> TRUE, ClientID |-> 7]}
FdMetrics == EngineOnly \cup MemoryOnly \cup IdleClient

\* a descriptor that c.lookup.match maps to a device
FdReads == [gpu : ProcGpus, m : FdMetrics]

\* clientMemory{}
ZeroMemory == [VRAM |-> 0, GTT |-> 0]
\* &rawProcess{pid: pid, ...}
NewRaw(g) == Raw(ScannedPid, [gpu |-> g, e |-> NoTotal])

DeltaNaive(value, prevMax) == value
\* scanProcess: deltaVRAM, deltaGTT
Delta(value, prevMax) == IF value > prevMax THEN value - prevMax ELSE 0

\* scanProcess: the update of prev.VRAM, prev.GTT
RaiseTo(value, prevMax) == IF value > prevMax THEN value ELSE prevMax

FreshTotalsKeep(old) == old
\* scanProcess: clientTotals := make(map[string]map[int]clientMemory)
FreshTotals(old) == EmptyMap

NoMaxima == [g \in ProcGpus |-> [c \in ClientIds |-> ZeroMemory]]

\* a collector between two scanProcess calls
InitCol ==
  /\ result = EmptyMap
  /\ clientTotals = EmptyMap
  /\ fdHist = [read |-> EmptyBag, total |-> 0, calls |-> 0,
               earlier |-> NoMaxima]

\* the memory data of a rawProcess: none, or one of the splits
MemData ==
  {[has |-> TRUE, vram |-> x[1], gtt |-> x[2]] : x \in MemSplits}
    \cup {[has |-> FALSE, vram |-> 0, gtt |-> 0]}

\* a rawProcess with memory data, or without
RawMem(p, g, mem) ==
  [Raw(p, [gpu |-> g, e |-> NoTotal]) EXCEPT
     !.hasMemory = mem.has, !.vramBytes = mem.vram, !.gttBytes = mem.gtt]

\* the Process lists performScan may have built for a device before it
\* sorts them: distinct pids in any order, each with or without memory data
RECURSIVE ListsOf(_)
ListsOf(n) ==
  IF n = 0 THEN {<<>>}
  ELSE LET shorter == ListsOf(n - 1) IN
       shorter \cup
       {Append(l, Process(RawMem(p, GpuOrder[1], mem), NoTotals, 0)) :
          <<l, p, mem>> \in
            {x \in {y \in shorter : Len(y) = n - 1} \X SortPids
                     \X MemData :
               \A i \in 1..Len(x[1]) : x[1][i].pid # x[2]}}
SortInputs == ListsOf(MaxProcs)

NotSorting == [in |-> <<>>, out |-> <<>>, done |-> FALSE]
\* nothing transmitted, nothing dropped, no ping read
NoFrame == [type |-> "none", gpu |-> NoGpu]
NoWire == [first |-> "none", pongs |-> 0, lostPongs |-> 0,
           lostHello |-> FALSE, pings |-> 0, last |-> NoFrame]
\* collect() is not running
NotWalking == [entries |-> <<>>, idx |-> 0, scanned |-> 0, opened |-> 0,
               collected |-> <<>>, done |-> FALSE]

\* parseFDInfo is not running
NotParsing ==
  [lines |-> <<>>, idx |-> 0, section |-> "none", done |-> FALSE,
   metrics |-> [VRAMBytes |-> 0, GTTBytes |-> 0, HasMemory |-> FALSE,
                EngineTotal |-> 0, HasEngine |-> FALSE, ClientID |-> 0]]

\* the program as constructed
Built ==
  /\ InitMgr /\ InitHist /\ InitCli /\ InitSess /\ InitAdm /\ InitScan
  /\ InitCol
  /\ stopped = [m \in Mgrs |-> "running"]
  /\ wire = NoWire
Program ==
  Built /\ sorting = NotSorting /\ walk = NotWalking /\ parse = NotParsing

\* ... observed with the whole delivery history, with the send counts only,
\* not at all, or with what the session puts on the wire
Init == Program /\ hist = "full"
InitCount == Program /\ hist = "count"
InitPlain == Program /\ hist = "none"
InitWire == Program /\ hist = "wire"

Upd(f, m, s, v) == [f EXCEPT ![m][s] = v]

\* an update of a history variable, made when the history is kept in full
Rec(f, m, s, v) == IF hist = "full" THEN Upd(f, m, s, v) ELSE f
\* an update of the count of sends since the last receive
RecCount(f, m, s, v) ==
  IF hist \in {"full", "count"} THEN Upd(f, m, s, v) ELSE f

\* ------------------------------------------------- acquisition goroutines
\* (a scan that would stop after its first device)
DoneFirstOnly(t, r) ==
  IF Mgr(t) = "sampler" THEN IdlePub
  ELSE [r EXCEPT !.pc = "finish", !.gpu = NoGpu, !.targets = {}, !.cur = 0]

\* where a loop goes once it has sent to all of targetSubs
Done(t, r) ==
  IF Mgr(t) = "sampler" THEN IdlePub
  ELSE IF r.idx < Len(GpuOrder)
       THEN [r EXCEPT !.pc = "scan", !.idx = r.idx + 1,
                      !.gpu = GpuOrder[r.idx + 1], !.targets = {}, !.cur = 0]
       ELSE [r EXCEPT !.pc = "finish", !.gpu = NoGpu, !.targets = {}, !.cur = 0]

AfterSend(t, r, s) ==
  LET rest == r.targets \ {s} IN
  IF rest = {} THEN Done(t, r)
  ELSE [r EXCEPT !.pc = "deliver", !.targets = rest, !.cur = 0]

RECURSIVE SumOver(_, _)
SumOver(f, S) ==
  IF S = {} THEN 0
  ELSE LET x == CHOOSE y \in S : TRUE IN f[x] + SumOver(f, S \ {x})

\* ticks that have fired so far in all the acquisition loops
Ticks ==
  SumOver(latest["sampler"], Readers)
    + (IF pub[ProcThread].pc = "idle" THEN lastScan ELSE pub[ProcThread].val)
    + scanWarns

\* sampler Run loop: m.storeSample(rdr.Sample()), the part under m.mu
storeSample(t) ==
  LET m == Mgr(t)
      k == t
      v == latest[m][k] + 1
      tg == Targets(m, k) IN
  /\ m = "sampler"
  /\ pub[t].pc = "idle"
  /\ mu[m] = Unlocked
  /\ latest' = Upd(latest, m, k, v)
  /\ pub' = [pub EXCEPT ![t] =
               IF tg = {} THEN IdlePub
               ELSE [pc |-> "deliver", gpu |-> k, val |-> v, idx |-> 0,
                     targets |-> tg, cur |-> 0]]
  /\ UNCHANGED <<subscribers, mu, lastScan, subGpu, chan, subClosed,
                 chanClosed, subMu, panicked, histVars, userVars>>

\* procscan Run loop: a tick, and performScan up to the first publish:
\* collect() fails, a warning is logged and the call returns; or it succeeds,
\* and prevScan is read under m.mu.RLock
performScanOn(t, fs, gap) ==
  LET now == IF clock = ZeroTime THEN StartTime ELSE clock + gap IN
  /\ t = ProcThread
  /\ pub[t].pc = "idle"
  /\ clock' = now
  /\ procfs' = fs
  /\ tickGap' = gap
  /\ IF CollectFails(fs)
     THEN /\ scanWarns' = scanWarns + 1
          /\ UNCHANGED <<pub, scan, seen>>
     ELSE /\ mu[Mgr(t)] = Unlocked
          /\ pub' = [pub EXCEPT ![t] =
                       [pc |-> "scan", gpu |-> GpuOrder[1],
                        val |-> lastScan + 1, idx |-> 1, targets |-> {},
                        cur |-> 0]]
          /\ scan' = [now |-> now,
                      elapsed |-> ElapsedSeconds(now, lastScanTime),
                      procs |-> fs.procs]
          /\ seen' = [cur |-> [ok |-> TRUE, now |-> now, procs |-> fs.procs],
                      prev |-> seen.cur,
                      older |-> seen.older \cup EnginePairs(seen.prev)]
          /\ UNCHANGED scanWarns
  /\ UNCHANGED <<latest, subscribers, mu, lastScan, subGpu, chan, subClosed,
                 chanClosed, subMu, panicked, histVars, quietVars,
                 lastScanTime, prevEngine, snap>>

\* ... with the process root as it is
performScan(t) == performScanOn(t, procfs, tickGap)

\* procscan publish(snapshot, totals), the part under m.mu
publish(t) ==
  LET m == Mgr(t)
      r == pub[t]
      tg == Targets(m, r.gpu) IN
  /\ t = ProcThread
  /\ r.pc = "scan"
  /\ mu[m] = Unlocked
  /\ latest' = Upd(latest, m, r.gpu, r.val)
  /\ snap' = [snap EXCEPT ![r.gpu] =
                 BuildSnapshot(r.gpu, scan, prevEngine[r.gpu])]
  /\ prevEngine' = [prevEngine EXCEPT ![r.gpu] =
                       StoreTotals(prevEngine[r.gpu],
                                   NextTotals({x \in scan.procs :
                                                 x.gpu = r.gpu}))]
  /\ pub' = [pub EXCEPT ![t] =
               IF tg = {} THEN Done(t, r)
               ELSE [r EXCEPT !.pc = "deliver", !.targets = tg]]
  /\ UNCHANGED <<subscribers, mu, lastScan, subGpu, chan, subClosed,
                 chanClosed, subMu, panicked, histVars, quietVars, procfs,
                 tickGap, clock, scan, lastScanTime, scanWarns, seen>>

\* performScan: m.lastScan = now, under m.mu
finishScan(t) ==
  /\ t = ProcThread
  /\ pub[t].pc = "finish"
  /\ mu[Mgr(t)] = Unlocked
  /\ lastScan' = pub[t].val
  /\ lastScanTime' = scan.now
  /\ scan' = NoScan
  /\ pub' = [pub EXCEPT ![t] = IdlePub]
  /\ UNCHANGED <<latest, subscribers, mu, subGpu, chan, subClosed,
                 chanClosed, subMu, panicked, histVars, quietVars, procfs,
                 tickGap, clock, prevEngine, snap, scanWarns, seen>>

\* subscriber.send: lock s.mu, test closed, first non-blocking send
sendTry(t) ==
  LET m == Mgr(t)
      r == pub[t] IN
  /\ r.pc = "deliver"
  /\ \E s \in r.targets :
       /\ subMu[m][s] = Free
       /\ SendReady(chan[m][s])
       /\ IF SendSkips(subClosed[m][s])
          THEN /\ pub' = [pub EXCEPT ![t] = AfterSend(t, r, s)]
               /\ UNCHANGED <<chan, subMu, panicked, histVars>>
          ELSE IF chanClosed[m][s]
          THEN /\ panicked' = TRUE
               /\ pub' = [pub EXCEPT ![t] = AfterSend(t, r, s)]
               /\ UNCHANGED <<chan, subMu, histVars>>
          ELSE IF Len(chan[m][s]) < SubCap
          THEN /\ chan' = Upd(chan, m, s, TrySend(chan[m][s], r.val))
               /\ puts' = Rec(puts, m, s, Append(puts[m][s], r.val))
               /\ lastSend' = Rec(lastSend, m, s, r.val)
               /\ sinceRecv' = RecCount(sinceRecv, m, s, sinceRecv[m][s] + 1)
               /\ liveBefore' = Rec(liveBefore, m, s,
                                    liveBefore[m][s] \/ recvd[m][s] = <<>>)
               /\ pub' = [pub EXCEPT ![t] = AfterSend(t, r, s)]
               /\ UNCHANGED <<subMu, panicked, recvd, cachedAtSub>>
          ELSE /\ subMu' = Upd(subMu, m, s, t)
               /\ pub' = [pub EXCEPT ![t] = [r EXCEPT !.pc = "drop", !.cur = s]]
               /\ UNCHANGED <<chan, panicked, histVars>>
  /\ UNCHANGED <<latest, subscribers, mu, lastScan, subGpu, subClosed,
                 chanClosed, userVars>>

\* subscriber.send: drop the oldest value to make room
sendDrop(t) ==
  LET m == Mgr(t)
      r == pub[t]
      s == r.cur IN
  /\ r.pc = "drop"
  /\ chan' = Upd(chan, m, s, DropOldest(chan[m][s]))
  /\ liveBefore' = Rec(liveBefore, m, s, liveBefore[m][s] \/ recvd[m][s] = <<>>)
  /\ pub' = [pub EXCEPT ![t] = [r EXCEPT !.pc = "retry"]]
  /\ UNCHANGED <<latest, subscribers, mu, lastScan, subGpu, subClosed,
                 chanClosed, subMu, panicked, lastSend, sinceRecv, puts, recvd,
                 cachedAtSub, userVars>>

\* subscriber.send: second non-blocking send, then unlock s.mu and return
sendRetry(t) ==
  LET m == Mgr(t)
      r == pub[t]
      s == r.cur
      nch == TrySend(chan[m][s], r.val) IN
  /\ r.pc = "retry"
  /\ chan' = Upd(chan, m, s, nch)
  /\ puts' = Rec(puts, m, s, IF nch # chan[m][s] THEN Append(puts[m][s], r.val)
                             ELSE puts[m][s])
  /\ lastSend' = Rec(lastSend, m, s, r.val)
  /\ sinceRecv' = RecCount(sinceRecv, m, s, sinceRecv[m][s] + 1)
  /\ subMu' = Upd(subMu, m, s, Free)
  /\ pub' = [pub EXCEPT ![t] = AfterSend(t, r, s)]
  /\ UNCHANGED <<latest, subscribers, mu, lastScan, subGpu, subClosed,
                 chanClosed, panicked, recvd, cachedAtSub, liveBefore, userVars>>

\* a step of an acquisition loop; a new tick fires only within the budget
TickOK(t, budget) == pub[t].pc = "idle" => Ticks < budget

PublisherStep(t) ==
  \/ storeSample(t)
  \/ performScan(t)
  \/ publish(t)
  \/ finishScan(t)
  \/ sendTry(t)
  \/ sendDrop(t)
  \/ sendRetry(t)

\* ---------------------------------------------------------- Subscribe etc.
\* newSubscriber(): the next subscriber object nobody has used yet
FreshSub(m) == CHOOSE s \in SubIds :
                 /\ subGpu[m][s] = NoGpu
                 /\ \A o \in SubIds : subGpu[m][o] = NoGpu => s <= o

CanSubscribe(m, k) ==
  /\ mu[m] = Unlocked
  /\ SubscribeOK(m, k)
  /\ \E s \in SubIds : subGpu[m][s] = NoGpu

\* Manager.Subscribe (both managers): register under m.mu and replay the
\* cached value into the new mailbox; one critical section, the new
\* subscriber is not yet visible to anybody else.
Subscribe(m, k) ==
  LET s  == FreshSub(m)
      nch == Replay(latest[m][k]) IN
  /\ CanSubscribe(m, k)
  /\ subscribers' = Upd(subscribers, m, k, subscribers[m][k] \cup {s})
  /\ subGpu' = Upd(subGpu, m, s, k)
  /\ chan' = Upd(chan, m, s, nch)
  /\ cachedAtSub' = Rec(cachedAtSub, m, s, latest[m][k])
  /\ puts' = Rec(puts, m, s, nch)
  /\ lastSend' = Rec(lastSend, m, s, latest[m][k])
  /\ sinceRecv' = RecCount(sinceRecv, m, s, IF latest[m][k] # 0 THEN 1 ELSE 0)
  /\ UNCHANGED <<latest, mu, lastScan, subClosed, chanClosed, subMu, pub,
                 panicked, recvd, liveBefore>>

\* the consumer's receive from sub.channel() that yields a value
Receive(m, s) ==
  /\ subGpu[m][s] # NoGpu
  /\ Len(chan[m][s]) > 0
  /\ recvd' = Rec(recvd, m, s, Append(recvd[m][s], Head(chan[m][s])))
  /\ chan' = Upd(chan, m, s, Tail(chan[m][s]))
  /\ sinceRecv' = RecCount(sinceRecv, m, s, 0)
  /\ UNCHANGED <<latest, subscribers, mu, lastScan, subGpu, subClosed,
                 chanClosed, subMu, pub, panicked, lastSend, puts, cachedAtSub,
                 liveBefore>>

\* Manager.removeSubscriber: m.mu.Lock(); delete(subs, sub)
removeBegin(m, s) ==
  LET k == subGpu[m][s] IN
  /\ k # NoGpu
  /\ mu[m] = Unlocked
  /\ mu' = [mu EXCEPT ![m] = s]
  /\ subscribers' = Upd(subscribers, m, k, subscribers[m][k] \ {s})
  /\ UNCHANGED <<latest, lastScan, subGpu, chan, subClosed, chanClosed, subMu,
                 pub, panicked, histVars>>

\* Manager.removeSubscriber: sub.close() under s.mu; m.mu.Unlock()
removeClose(m, s) ==
  /\ mu[m] = s
  /\ subMu[m][s] = Free
  /\ IF CloseRuns(subClosed[m][s])
     THEN /\ panicked' = (panicked \/ chanClosed[m][s])
          /\ chanClosed' = Upd(chanClosed, m, s, TRUE)
          /\ subClosed' = Upd(subClosed, m, s, TRUE)
     ELSE UNCHANGED <<panicked, chanClosed, subClosed>>
  /\ mu' = [mu EXCEPT ![m] = Unlocked]
  /\ UNCHANGED <<latest, subscribers, lastScan, subGpu, chan, subMu, pub,
                 histVars>>

\* ------------------------------------------- free-standing consumers (Spec)
ClientSubscribe(m, k) ==
  /\ Cardinality({s \in SubIds : subGpu[m][s] # NoGpu}) < MaxSubs
  /\ Subscribe(m, k)
  /\ UNCHANGED userVars

ClientReceive(m, s) ==
  /\ Receive(m, s)
  /\ UNCHANGED userVars

\* unsubscribe calls made so far
UnsubTotal ==
  SumOver([m \in Mgrs |-> SumOver(unsubCalls[m], SubIds)], Mgrs)

\* a call of the unsubscribe closure; calls on one subscriber may overlap,
\* the second then waits for m.mu
ClientUnsubBegin(m, s) ==
  /\ UnsubTotal < MaxUnsub
  /\ removeBegin(m, s)
  /\ unsubCalls' = Upd(unsubCalls, m, s, unsubCalls[m][s] + 1)
  /\ UNCHANGED <<hist, sessVars, admVars, scanVars, sideVars>>

ClientUnsubClose(m, s) ==
  /\ removeClose(m, s)
  /\ UNCHANGED userVars

\* The two managers share no variable and no lock, so a behaviour of both is
\* an interleaving of one behaviour of each: Spec explores one manager at a
\* time, the other one staying as constructed.
Untouched(m) ==
  /\ \A k \in Devices : latest[m][k] = 0
  /\ \A s \in SubIds : subGpu[m][s] = NoGpu
  /\ \A t \in Threads : Mgr(t) = m => pub[t].pc = "idle"

Alone(m) == \A o \in Mgrs \ {m} : Untouched(o)

Publisher ==
  \E t \in Threads : Alone(Mgr(t)) /\ TickOK(t, MaxPub) /\ PublisherStep(t)
Subscriber == \E m \in Mgrs, k \in Devices : Alone(m) /\ ClientSubscribe(m, k)
Consumer == \E m \in Mgrs, s \in SubIds : ClientReceive(m, s)
UnsubBegin == \E m \in Mgrs, s \in SubIds : ClientUnsubBegin(m, s)
UnsubClose == \E m \in Mgrs, s \in SubIds : ClientUnsubClose(m, s)

Next ==
  \/ Publisher
  \/ Subscriber
  \/ Consumer
  \/ UnsubBegin
  \/ UnsubClose

Spec == Init /\ [][Next]_vars

\* Goroutines that are not blocked keep being scheduled: the acquisition
\* loops, and a removeSubscriber call that holds m.mu.  Nothing is assumed
\* about consumers: they may never receive.
LiveSpec ==
  /\ InitCount
  /\ [][Next]_vars
  /\ \A t \in Threads :
       WF_vars(Alone(Mgr(t)) /\ TickOK(t, MaxPub) /\ PublisherStep(t))
  /\ WF_vars(UnsubClose)

\* ======================================================================
\* The WebSocket session: handleWS, readMessages, wsWriter
\* ======================================================================
wsSendQueueSize == 16      \* capacity of the outbound queue
MsgChCap == 8              \* messageCh := make(chan []byte, 8)
GpuIndex == Devices        \* s.gpuIndex: every discovered gpu
DefaultGPU == "A"          \* defaultGPU(): "auto" resolves to s.gpus[0].ID

HelloMsg == [type |-> "hello", gpu |-> NoGpu, n |-> 0]
ErrorMsg == [type |-> "error", gpu |-> NoGpu, n |-> 0]
\* api.NewStatsMessage(sample) / api.NewProcsMessage(snapshot)
DataMsg(m, k, v) ==
  [type |-> IF m = "sampler" THEN "stats" ELSE "procs", gpu |-> k, n |-> v]

PongMsg == [type |-> "pong", gpu |-> NoGpu, n |-> 0]

\* frames a client sends
InFrames == {[type |-> "subscribe", gpu |-> k] : k \in Devices}

\* a device id that is not in s.gpuIndex
UnknownGpu == "X"
\* ... and the other text frames, by what the two json.Unmarshal calls and
\* the switch on envelope.Type make of them: "malformed" does not decode
\* into the envelope, "subscribe_undecodable" has type subscribe and a
\* payload that does not decode, "other" has a type that is no case of the
\* switch
ProtoFrames ==
  {[type |-> "subscribe", gpu |-> k] : k \in {"A", "C", UnknownGpu, NoGpu}}
    \cup {[type |-> y, gpu |-> NoGpu] :
            y \in {"ping", "malformed", "subscribe_undecodable", "other"}}

enqueueKeepOld(q, closed, msg) ==
  IF closed THEN [q |-> q, ok |-> FALSE]
  ELSE IF Len(q) < wsSendQueueSize THEN [q |-> Append(q, msg), ok |-> TRUE]
  ELSE [q |-> q, ok |-> TRUE]

\* wsOutbound.enqueue: non-blocking send, else drop the oldest and retry
enqueue(q, closed, msg) ==
  IF closed THEN [q |-> q, ok |-> FALSE]
  ELSE IF Len(q) < wsSendQueueSize THEN [q |-> Append(q, msg), ok |-> TRUE]
  ELSE LET q2 == IF Len(q) > 0 THEN Tail(q) ELSE q IN
       IF Len(q2) < wsSendQueueSize THEN [q |-> Append(q2, msg), ok |-> TRUE]
       ELSE [q |-> q2, ok |-> FALSE]

\* the message enqueue takes off a full queue (<-o.ch), if any
Evicted(q, closed) ==
  IF ~closed /\ Len(q) >= wsSendQueueSize /\ Len(q) > 0
  THEN <<Head(q)>> ELSE <<>>

\* an update of the wire history, made when that history is kept
Note(w) == IF hist = "wire" THEN w ELSE wire

\* the wire history after an enqueue on the outbound queue
Lost ==
  LET ev == Evicted(outQ, outClosed) IN
  IF ev = <<>> THEN wire
  ELSE Note([wire EXCEPT
               !.lostPongs = @ + (IF ev[1].type = "pong" THEN 1 ELSE 0),
               !.lostHello = @ \/ ev[1].type = "hello"])

NeedsUnsubNever(u) == FALSE
\* if unsubscribe != nil { ... } / if procUnsubscribe != nil { ... }
NeedsUnsub(u) == u # 0

TdPcSkip(u, pu) == "td_close"
\* the deferred teardown of handleWS: first thing to do
TdPc(u, pu) ==
  IF NeedsUnsub(u) THEN "td_unsub_sampler"
  ELSE IF NeedsUnsub(pu) THEN "td_unsub_proc" ELSE "td_close"

\* switchSubscription after its checks: first thing to do
SwPc(u, pu) ==
  IF NeedsUnsub(u) THEN "sw_unsub_sampler"
  ELSE IF NeedsUnsub(pu) THEN "sw_unsub_proc" ELSE "sw_sub"

SwitchCheckLenient(target, cur) ==
  IF target = NoGpu THEN "error"
  ELSE IF target \notin GpuIndex \/ target = cur THEN "noop"
  ELSE "go"

SwitchCheckAgain(target, cur) ==
  IF target = NoGpu \/ target \notin GpuIndex THEN "error" ELSE "go"

\* the checks at the head of switchSubscription
SwitchCheck(target, cur) ==
  IF target = NoGpu THEN "error"
  ELSE IF target \notin GpuIndex THEN "error"
  ELSE IF target = cur THEN "noop"
  ELSE "go"

Saved(outcome) ==
  [gpu |-> currentGPU, sub |-> subCh, proc |-> procCh, result |-> outcome]

\* a call of switchSubscription(target), up to its first lock; a call that
\* returns an error has the caller enqueue an error message
BeginSwitch(target) ==
  LET c == SwitchCheck(target, currentGPU)
      e == enqueue(outQ, outClosed, ErrorMsg) IN
  /\ sPc' = IF c = "go" THEN SwPc(unsubscribe, procUnsubscribe)
            ELSE IF c = "noop" \/ e.ok THEN "loop"
            ELSE TdPc(unsubscribe, procUnsubscribe)
  /\ swTarget' = IF c = "go" THEN target ELSE swTarget
  /\ sw' = IF c = "go" THEN Saved("running")
           ELSE IF c = "error" THEN Saved("failed") ELSE sw
  /\ outQ' = IF c = "error" THEN e.q ELSE outQ

\* handleWS: enqueue hello, start the reader
SessStart ==
  LET e == enqueue(outQ, outClosed, HelloMsg) IN
  /\ sPc = "start"
  /\ outQ' = e.q
  /\ sPc' = IF e.ok THEN "default" ELSE TdPc(unsubscribe, procUnsubscribe)
  /\ rPc' = IF e.ok THEN "run" ELSE rPc
  /\ wire' = Lost
  /\ UNCHANGED <<mgrVars, histVars, farVars, subCh, unsubscribe, procCh,
                 procUnsubscribe, currentGPU, swTarget, outClosed, ctxDone,
                 wPc, messageCh, messageChState, readErrCh, inSent, sw>>

\* handleWS: switchSubscription(defaultGPU)
SessDefault ==
  /\ sPc = "default"
  /\ BeginSwitch(DefaultGPU)
  /\ wire' = IF SwitchCheck(DefaultGPU, currentGPU) = "error" THEN Lost
             ELSE wire
  /\ UNCHANGED <<mgrVars, histVars, farVars, subCh, unsubscribe, procCh,
                 procUnsubscribe, currentGPU, outClosed, ctxDone, wPc, rPc,
                 messageCh, messageChState, readErrCh, inSent>>

Handle(m) == IF m = "sampler" THEN unsubscribe ELSE procUnsubscribe
InSwitch == sPc \in {"sw_unsub_sampler", "sw_unsub_proc",
                     "sw_close_sampler", "sw_close_proc"}

\* unsubscribe() / procUnsubscribe(), in switchSubscription and in the
\* deferred teardown: the part of removeSubscriber that takes m.mu
SessRemoveBegin(m) ==
  /\ sPc \in {"sw_unsub_" \o m, "td_unsub_" \o m}
  /\ removeBegin(m, Handle(m))
  /\ sPc' = (IF InSwitch THEN "sw_close_" ELSE "td_close_") \o m
  /\ UNCHANGED <<restVars, subCh, unsubscribe, procCh, procUnsubscribe,
                 currentGPU, swTarget, outQ, outClosed, ctxDone, wPc, rPc,
                 messageCh, messageChState, readErrCh, inSent, sw>>

\* ... and the part that closes the mailbox; switchSubscription then clears
\* the handle and the channel
SessRemoveClose(m) ==
  /\ sPc \in {"sw_close_" \o m, "td_close_" \o m}
  /\ removeClose(m, Handle(m))
  /\ IF InSwitch
     THEN /\ unsubscribe' = IF m = "sampler" THEN 0 ELSE unsubscribe
          /\ subCh' = IF m = "sampler" THEN 0 ELSE subCh
          /\ procUnsubscribe' = IF m = "proc" THEN 0 ELSE procUnsubscribe
          /\ procCh' = IF m = "proc" THEN 0 ELSE procCh
          /\ sPc' = IF m = "sampler" /\ NeedsUnsub(procUnsubscribe)
                    THEN "sw_unsub_proc" ELSE "sw_sub"
     ELSE /\ UNCHANGED <<unsubscribe, subCh, procUnsubscribe, procCh>>
          /\ sPc' = IF m = "sampler" /\ NeedsUnsub(procUnsubscribe)
                    THEN "td_unsub_proc" ELSE "td_close"
  /\ UNCHANGED <<restVars, currentGPU, swTarget, outQ, outClosed, ctxDone, wPc,
                 rPc, messageCh, messageChState, readErrCh, inSent, sw>>

\* switchSubscription: s.sampler.Subscribe(target); on error the caller
\* enqueues an error message
SwSubscribe ==
  LET e == enqueue(outQ, outClosed, ErrorMsg) IN
  /\ sPc = "sw_sub"
  /\ mu["sampler"] = Unlocked
  /\ IF SubscribeOK("sampler", swTarget)
     THEN /\ Subscribe("sampler", swTarget)
          /\ subCh' = FreshSub("sampler")
          /\ unsubscribe' = FreshSub("sampler")
          /\ sPc' = "sw_psub"
          /\ UNCHANGED <<outQ, sw, wire>>
     ELSE /\ outQ' = e.q
          /\ wire' = Lost
          /\ sPc' = IF e.ok THEN "loop" ELSE TdPc(unsubscribe, procUnsubscribe)
          /\ sw' = [sw EXCEPT !.result = "failed"]
          /\ UNCHANGED <<mgrVars, histVars, subCh, unsubscribe>>
  /\ UNCHANGED <<farVars, procCh, procUnsubscribe, currentGPU, swTarget,
                 outClosed, ctxDone, wPc, rPc, messageCh, messageChState,
                 readErrCh, inSent>>

\* switchSubscription: s.proc.Subscribe(target) (a failure is only logged),
\* then currentGPU = target
SwProcSubscribe ==
  /\ sPc = "sw_psub"
  /\ IF SubscribeOK("proc", swTarget)
     THEN /\ Subscribe("proc", swTarget)
          /\ procCh' = FreshSub("proc")
          /\ procUnsubscribe' = FreshSub("proc")
     ELSE UNCHANGED <<mgrVars, histVars, procCh, procUnsubscribe>>
  /\ currentGPU' = swTarget
  /\ sw' = [sw EXCEPT !.result = "ok"]
  /\ sPc' = "loop"
  /\ UNCHANGED <<restVars, subCh, unsubscribe, swTarget, outQ, outClosed,
                 ctxDone, wPc, rPc, messageCh, messageChState, readErrCh,
                 inSent>>

SessCh(m) == IF m = "sampler" THEN subCh ELSE procCh

\* the select loop: case sample, ok := <-subCh / case snapshot, ok := <-procCh
Relay(m) ==
  LET s == SessCh(m) IN
  /\ sPc = "loop"
  /\ s # 0
  /\ Len(chan[m][s]) > 0 \/ chanClosed[m][s]
  /\ IF Len(chan[m][s]) > 0
     THEN LET e == enqueue(outQ, outClosed,
                           DataMsg(m, subGpu[m][s], Head(chan[m][s]))) IN
          /\ Receive(m, s)
          /\ outQ' = e.q
          /\ wire' = Lost
          /\ sPc' = IF e.ok THEN "loop" ELSE TdPc(unsubscribe, procUnsubscribe)
          /\ UNCHANGED <<subCh, procCh, currentGPU>>
     ELSE /\ subCh' = IF m = "sampler" THEN 0 ELSE subCh
          /\ procCh' = IF m = "proc" THEN 0 ELSE procCh
          /\ currentGPU' = IF m = "sampler" THEN NoGpu ELSE currentGPU
          /\ UNCHANGED <<mgrVars, histVars, outQ, sPc, wire>>
  /\ UNCHANGED <<farVars, unsubscribe, procUnsubscribe, swTarget, outClosed,
                 ctxDone, wPc, rPc, messageCh, messageChState, readErrCh,
                 inSent, sw>>

OnMalformedError == "error"
\* handleClientMessage: the envelope does not decode: logger.Debug, return nil
OnMalformed == "ignore"

handleClientMessageDeaf(f) ==
  IF f.type = "subscribe"
  THEN [act |-> "switch",
        target |-> IF f.gpu = NoGpu THEN DefaultGPU ELSE f.gpu]
  ELSE [act |-> "ignore", target |-> NoGpu]

\* handleClientMessage: what a frame leads to: a call of switchSubscription,
\* an error message, a pong, or nothing but a log line
handleClientMessage(f) ==
  IF f.type = "malformed" THEN [act |-> OnMalformed, target |-> NoGpu]
  ELSE IF f.type = "subscribe_undecodable"
  THEN [act |-> "error", target |-> NoGpu]
  ELSE IF f.type = "subscribe"
  THEN LET target == IF f.gpu = NoGpu THEN DefaultGPU ELSE f.gpu IN
       IF target = NoGpu THEN [act |-> "error", target |-> NoGpu]
       ELSE [act |-> "switch", target |-> target]
  ELSE IF f.type = "ping" THEN [act |-> "pong", target |-> NoGpu]
  ELSE [act |-> "ignore", target |-> NoGpu]

\* the select loop: case data, ok := <-messageCh, with handleClientMessage
HandleMessage ==
  LET f == Head(messageCh)
      h == handleClientMessage(f)
      e == enqueue(outQ, outClosed,
                   IF h.act = "pong" THEN PongMsg ELSE ErrorMsg)
      answered == IF h.act = "switch"
                  THEN SwitchCheck(h.target, currentGPU) = "error"
                  ELSE h.act # "ignore" IN
  /\ sPc = "loop"
  /\ messageChState # "nil"
  /\ messageCh # <<>>
  /\ messageCh' = Tail(messageCh)
  /\ wire' = Note([(IF answered THEN Lost ELSE wire) EXCEPT !.last = f])
  /\ IF h.act = "switch" THEN BeginSwitch(h.target)
     ELSE IF h.act = "ignore" THEN UNCHANGED <<sPc, swTarget, sw, outQ>>
     ELSE /\ outQ' = e.q
          /\ sPc' = IF e.ok THEN "loop" ELSE TdPc(unsubscribe, procUnsubscribe)
          /\ UNCHANGED <<swTarget, sw>>
  /\ UNCHANGED <<mgrVars, histVars, farVars, subCh, unsubscribe, procCh,
                 procUnsubscribe, currentGPU, outClosed, ctxDone, wPc, rPc,
                 messageChState, readErrCh, inSent>>

\* the select loop: messageCh was closed by the reader: messageCh = nil
MessageChGone ==
  /\ sPc = "loop"
  /\ messageChState = "closed"
  /\ messageCh = <<>>
  /\ messageChState' = "nil"
  /\ UNCHANGED <<mgrVars, histVars, restVars, sPc, subCh, unsubscribe, procCh,
                 procUnsubscribe, currentGPU, swTarget, outQ, outClosed,
                 ctxDone, wPc, rPc, messageCh, readErrCh, inSent, sw>>

\* the select loop: case err := <-readErrCh: return
OnReadErr ==
  /\ sPc = "loop"
  /\ readErrCh # <<>>
  /\ readErrCh' = Tail(readErrCh)
  /\ sPc' = TdPc(unsubscribe, procUnsubscribe)
  /\ UNCHANGED <<mgrVars, histVars, restVars, subCh, unsubscribe, procCh,
                 procUnsubscribe, currentGPU, swTarget, outQ, outClosed,
                 ctxDone, wPc, rPc, messageCh, messageChState, inSent, sw>>

\* the select loop: case <-ctx.Done(): return
OnCtxDone ==
  /\ sPc = "loop"
  /\ ctxDone
  /\ sPc' = TdPc(unsubscribe, procUnsubscribe)
  /\ UNCHANGED <<mgrVars, histVars, restVars, subCh, unsubscribe, procCh,
                 procUnsubscribe, currentGPU, swTarget, outQ, outClosed,
                 ctxDone, wPc, rPc, messageCh, messageChState, readErrCh,
                 inSent, sw>>

\* (a teardown that would wait for the writer without closing the queue
\* and without cancelling)
TdCloseNoCancel ==
  /\ sPc = "td_close"
  /\ sPc' = "td_wait"
  /\ UNCHANGED <<mgrVars, histVars, restVars, subCh, unsubscribe, procCh,
                 procUnsubscribe, currentGPU, swTarget, outQ, outClosed,
                 ctxDone, wPc, rPc, messageCh, messageChState, readErrCh,
                 inSent, sw>>

\* deferred teardown: outbound.close(); cancel()
TdClose ==
  /\ sPc = "td_close"
  /\ outClosed' = TRUE
  /\ ctxDone' = TRUE
  /\ sPc' = "td_wait"
  /\ UNCHANGED <<mgrVars, histVars, restVars, subCh, unsubscribe, procCh,
                 procUnsubscribe, currentGPU, swTarget, outQ, wPc, rPc,
                 messageCh, messageChState, readErrCh, inSent, sw>>

\* deferred teardown: <-writerDone, then handleWS returns
TdWait ==
  /\ sPc = "td_wait"
  /\ wPc # "run"
  /\ sPc' = "exited"
  /\ UNCHANGED <<mgrVars, histVars, restVars, subCh, unsubscribe, procCh,
                 procUnsubscribe, currentGPU, swTarget, outQ, outClosed,
                 ctxDone, wPc, rPc, messageCh, messageChState, readErrCh,
                 inSent, sw>>

\* readMessages: a text frame is read and handed to handleWS; the client
\* sends at most budget frames
ReadFrame(f, budget) ==
  /\ rPc = "run"
  /\ ~ctxDone
  /\ inSent < budget
  /\ Len(messageCh) < MsgChCap
  /\ messageCh' = Append(messageCh, f)
  /\ inSent' = inSent + 1
  /\ wire' = Note([wire EXCEPT
                     !.pings = @ + (IF f.type = "ping" THEN 1 ELSE 0)])
  /\ UNCHANGED <<mgrVars, histVars, farVars, sPc, subCh, unsubscribe, procCh,
                 procUnsubscribe, currentGPU, swTarget, outQ, outClosed,
                 ctxDone, wPc, rPc, messageChState, readErrCh, sw>>

ReaderFrame(f) == ReadFrame(f, MaxMsgs)

\* readMessages: conn.Read fails (transport error, close, cancelled
\* context): errCh <- err; return, closing messageCh
ReaderError ==
  /\ rPc = "run"
  /\ readErrCh' = Append(readErrCh, "err")
  /\ messageChState' = "closed"
  /\ rPc' = "done"
  /\ UNCHANGED <<mgrVars, histVars, restVars, sPc, subCh, unsubscribe, procCh,
                 procUnsubscribe, currentGPU, swTarget, outQ, outClosed,
                 ctxDone, wPc, messageCh, inSent, sw>>

DequeueNewest(q) == [msg |-> q[Len(q)], rest |-> SubSeq(q, 1, Len(q) - 1)]
\* wsWriter: case msg, ok := <-outbound.ch: the oldest queued message
Dequeue(q) == [msg |-> Head(q), rest |-> Tail(q)]

\* wsWriter: a queued message is written to the client
WriterWrite ==
  /\ wPc = "run"
  /\ ~ctxDone
  /\ outQ # <<>>
  /\ outQ' = Dequeue(outQ).rest
  /\ wire' = Note([wire EXCEPT
                     !.first = IF @ = "none" THEN Dequeue(outQ).msg.type
                               ELSE @,
                     !.pongs = @ + (IF Dequeue(outQ).msg.type = "pong"
                                    THEN 1 ELSE 0)])
  /\ UNCHANGED <<mgrVars, histVars, farVars, sPc, subCh, unsubscribe, procCh,
                 procUnsubscribe, currentGPU, swTarget, outClosed, ctxDone,
                 wPc, rPc, messageCh, messageChState, readErrCh, inSent, sw>>

\* wsWriter: the write fails: cancel(); return
WriterFail ==
  /\ wPc = "run"
  /\ outQ # <<>>
  /\ outQ' = Dequeue(outQ).rest
  /\ ctxDone' = TRUE
  /\ wPc' = "failed"
  /\ UNCHANGED <<mgrVars, histVars, restVars, sPc, subCh, unsubscribe, procCh,
                 procUnsubscribe, currentGPU, swTarget, outClosed, rPc,
                 messageCh, messageChState, readErrCh, inSent, sw>>

\* wsWriter: case <-ctx.Done(), or the outbound queue is closed and drained
WriterExit ==
  /\ wPc = "run"
  /\ ctxDone \/ (outClosed /\ outQ = <<>>)
  /\ wPc' = "done"
  /\ UNCHANGED <<mgrVars, histVars, restVars, sPc, subCh, unsubscribe, procCh,
                 procUnsubscribe, currentGPU, swTarget, outQ, outClosed,
                 ctxDone, rPc, messageCh, messageChState, readErrCh, inSent,
                 sw>>

\* the request context is cancelled (server shutdown, connection gone)
CtxCancel ==
  /\ ~ctxDone
  /\ sPc # "exited"
  /\ ctxDone' = TRUE
  /\ UNCHANGED <<mgrVars, histVars, restVars, sPc, subCh, unsubscribe, procCh,
                 procUnsubscribe, currentGPU, swTarget, outQ, outClosed, wPc,
                 rPc, messageCh, messageChState, readErrCh, inSent, sw>>

Acquire == \E t \in Threads : TickOK(t, MaxTicks) /\ PublisherStep(t)
SessUnsubBegin == \E m \in Mgrs : SessRemoveBegin(m)
SessUnsubClose == \E m \in Mgrs : SessRemoveClose(m)
SessRelay == \E m \in Mgrs : Relay(m)
ClientFrame == \E f \in InFrames : ReaderFrame(f)

SessNext ==
  \/ Acquire
  \/ SessStart
  \/ SessDefault
  \/ SessUnsubBegin
  \/ SessUnsubClose
  \/ SwSubscribe
  \/ SwProcSubscribe
  \/ SessRelay
  \/ HandleMessage
  \/ MessageChGone
  \/ OnReadErr
  \/ OnCtxDone
  \/ TdClose
  \/ TdWait
  \/ ClientFrame
  \/ ReaderError
  \/ WriterWrite
  \/ WriterFail
  \/ WriterExit
  \/ CtxCancel

SessionSpec == InitPlain /\ [][SessNext]_vars

\* ======================================================================
\* Admission of WebSocket connections: handleWS, reserveWS, releaseWS
\* ======================================================================
CasBlind(active, current) == TRUE
\* s.wsActive.CompareAndSwap(current, current+1) succeeds
CasOK(active, current) == active = current

\* reserveWS: without a limit wsActive.Add(1); else current := wsActive.Load()
reserveLoad(c) ==
  /\ att[c].pc = "new"
  /\ IF maxWSClients <= 0
     THEN /\ wsActive' = wsActive + 1
          /\ att' = [att EXCEPT ![c].pc = "accept"]
     ELSE /\ att' = [att EXCEPT ![c] = [pc |-> "loaded", cur |-> wsActive,
                                        loads |-> att[c].loads + 1]]
          /\ UNCHANGED wsActive
  /\ UNCHANGED <<wsRejected, mgrVars, histVars, cliVars, sessVars,
                 scanVars, sideVars>>

\* reserveWS: current >= maxWSClients: wsRejected.Add(1); return false, and
\* handleWS answers 503 and returns
reserveReject(c) ==
  /\ att[c].pc = "loaded"
  /\ att[c].cur >= maxWSClients
  /\ wsRejected' = wsRejected + 1
  /\ att' = [att EXCEPT ![c].pc = "rejected"]
  /\ UNCHANGED <<wsActive, mgrVars, histVars, cliVars, sessVars,
                 scanVars, sideVars>>

\* reserveWS: the CompareAndSwap; a lost race goes round the loop again
reserveCAS(c) ==
  /\ att[c].pc = "loaded"
  /\ att[c].cur < maxWSClients
  /\ IF CasOK(wsActive, att[c].cur)
     THEN /\ wsActive' = att[c].cur + 1
          /\ att' = [att EXCEPT ![c].pc = "accept"]
     ELSE /\ att' = [att EXCEPT ![c].pc = "new"]
          /\ UNCHANGED wsActive
  /\ UNCHANGED <<wsRejected, mgrVars, histVars, cliVars, sessVars,
                 scanVars, sideVars>>

\* handleWS: websocket.Accept succeeds and the session runs
acceptOK(c) ==
  /\ att[c].pc = "accept"
  /\ att' = [att EXCEPT ![c].pc = "session"]
  /\ UNCHANGED <<wsActive, wsRejected, mgrVars, histVars, cliVars, sessVars,
                 scanVars, sideVars>>

\* handleWS returns after reserveWS succeeded (Accept failed, or the session
\* ended): the deferred releaseWS
releaseWS(c) ==
  /\ att[c].pc \in {"accept", "session"}
  /\ wsActive' = wsActive - 1
  /\ att' = [att EXCEPT ![c].pc = "done"]
  /\ UNCHANGED <<wsRejected, mgrVars, histVars, cliVars, sessVars,
                 scanVars, sideVars>>

Load == \E c \in Conns : reserveLoad(c)
Reject == \E c \in Conns : reserveReject(c)
Swap == \E c \in Conns : reserveCAS(c)
Accept == \E c \in Conns : acceptOK(c)
Release == \E c \in Conns : releaseWS(c)

AdmitNext ==
  \/ Load
  \/ Reject
  \/ Swap
  \/ Accept
  \/ Release

AdmitSpec == InitPlain /\ [][AdmitNext]_vars

\* ======================================================================
\* The process scanner against a changing /proc: ScanSpec
\* ======================================================================
\* a tick finds the process root in any of its states
ScanTick ==
  /\ Ticks < MaxScans
  /\ \E fs \in ProcFs, g \in TickGaps : performScanOn(ProcThread, fs, g)

\* the rest of performScan
ScanWork ==
  \/ publish(ProcThread)
  \/ finishScan(ProcThread)
  \/ sendTry(ProcThread)
  \/ sendDrop(ProcThread)
  \/ sendRetry(ProcThread)

\* a consumer subscribes to the first device's snapshots before the first
\* scan and never receives
ScanSubscriber ==
  \E k \in {GpuOrder[1]} :
    /\ clock = ZeroTime
    /\ Cardinality({s \in SubIds : subGpu["proc"][s] # NoGpu}) < MaxSubs
    /\ Subscribe("proc", k)
    /\ UNCHANGED userVars

ScanNext ==
  \/ ScanTick
  \/ ScanWork
  \/ ScanSubscriber

ScanSpec == InitPlain /\ [][ScanNext]_vars

\* ======================================================================
\* One process directory read again and again: CollectSpec
\* ======================================================================
\* the descriptors with memory lines that this call has read for a device
\* and a client-id
MemoryReads(g, c) ==
  {d \in BagToSet(fdHist.read) :
     d.gpu = g /\ d.m.HasMemory /\ d.m.ClientID = c}
SetMax(S) == IF S = {} THEN 0 ELSE CHOOSE x \in S : \A y \in S : y <= x
\* the largest readings of this call
CallMax(g, c) ==
  [VRAM |-> SetMax({d.m.VRAMBytes : d \in MemoryReads(g, c)}),
   GTT |-> SetMax({d.m.GTTBytes : d \in MemoryReads(g, c)})]
\* the largest readings of this call and of all the calls before it
EverMax ==
  [g \in ProcGpus |-> [c \in ClientIds |->
     [VRAM |-> SetMax({CallMax(g, c).VRAM, fdHist.earlier[g][c].VRAM}),
      GTT |-> SetMax({CallMax(g, c).GTT, fdHist.earlier[g][c].GTT})]]]

DedupsAll(m) == TRUE
\* scanProcess: if metrics.ClientID > 0: the reading counts through the
\* maximum of its client-id; otherwise it is added as it is
Dedups(m) == m.ClientID > 0

\* scanProcess: one round of the loop over fd, for a matched descriptor whose
\* fdinfo was read
scanFd(d) ==
  LET g == d.gpu
      m == d.m
      raw == Get(result, g, NewRaw(g))
      totals == Get(clientTotals, g, EmptyMap)
      prev == Get(totals, m.ClientID, ZeroMemory)
      deltaVRAM == Delta(m.VRAMBytes, prev.VRAM)
      deltaGTT == Delta(m.GTTBytes, prev.GTT)
      withMem ==
        IF ~m.HasMemory THEN raw
        ELSE IF Dedups(m)
             THEN [raw EXCEPT !.vramBytes = @ + deltaVRAM,
                              !.gttBytes = @ + deltaGTT,
                              !.hasMemory = @ \/ deltaVRAM > 0 \/ deltaGTT > 0]
             ELSE [raw EXCEPT !.vramBytes = @ + m.VRAMBytes,
                              !.gttBytes = @ + m.GTTBytes,
                              !.hasMemory = TRUE]
      withEngine ==
        IF m.HasEngine
        THEN [withMem EXCEPT !.engineTotal = @ + m.EngineTotal,
                             !.hasEngine = TRUE]
        ELSE withMem IN
  /\ fdHist.total < MaxFds
  /\ result' = Put(result, g, withEngine)
  /\ clientTotals' =
       IF m.HasMemory /\ Dedups(m)
       THEN Put(clientTotals, g,
                Put(totals, m.ClientID,
                    [VRAM |-> RaiseTo(m.VRAMBytes, prev.VRAM),
                     GTT |-> RaiseTo(m.GTTBytes, prev.GTT)]))
       ELSE clientTotals
  /\ fdHist' = [fdHist EXCEPT !.read = @ (+) SetToBag({d}),
                              !.total = @ + 1]
  /\ UNCHANGED <<mgrVars, histVars, cliVars, sessVars, admVars, scanVars,
                 sorting, stopped, wire, walk, parse>>

\* scanProcess returns; the next call makes its maps anew
scanReturn ==
  /\ fdHist.calls < MaxCalls
  /\ result' = EmptyMap
  /\ clientTotals' = FreshTotals(clientTotals)
  /\ fdHist' = [fdHist EXCEPT !.read = EmptyBag, !.calls = @ + 1,
                              !.earlier = EverMax]
  /\ UNCHANGED <<mgrVars, histVars, cliVars, sessVars, admVars, scanVars,
                 sorting, stopped, wire, walk, parse>>

ScanFd == \E d \in FdReads : scanFd(d)

CollectNext ==
  \/ ScanFd
  \/ scanReturn

CollectSpec == InitPlain /\ [][CollectNext]_vars

\* ======================================================================
\* The managers until their Run returns: ShutdownSpec
\* ======================================================================
ReadyForAny(readers) == \E id \in readers : latest["sampler"][id] # 0
\* sampler Manager.Ready, of a manager built from the given readers
ReadyFor(readers) ==
  IF readers = {} THEN TRUE
  ELSE \A id \in readers : latest["sampler"][id] # 0

Ready == ReadyFor(Readers)

\* the context handed to Run is cancelled
cancelRun(m) ==
  /\ stopped[m] = "running"
  /\ stopped' = [stopped EXCEPT ![m] = "cancelled"]
  /\ UNCHANGED <<mgrVars, histVars, cliVars, sessVars, admVars, scanVars,
                 colVars, sorting, wire, walk, parse>>

\* (a Close that would also empty the cache)
closeManagerClears(m) ==
  /\ stopped[m] = "cancelled"
  /\ \A t \in Threads : Mgr(t) = m => pub[t].pc = "idle"
  /\ stopped' = [stopped EXCEPT ![m] = "closed"]
  /\ latest' = [latest EXCEPT ![m] = [k \in DOMAIN @ |-> 0]]
  /\ UNCHANGED <<subscribers, mu, lastScan, subGpu, chan, subClosed,
                 chanClosed, subMu, pub, panicked, histVars, cliVars,
                 sessVars, admVars, scanVars, colVars, sorting, wire, walk,
                 parse>>

\* Run: the loops have seen ctx.Done() and returned (wg.Wait() of the
\* sampler), and m.Close() runs: it closes the readers (sampler) or the
\* collector (procscan), and touches neither the subscribers nor their
\* mailboxes
closeManager(m) ==
  /\ stopped[m] = "cancelled"
  /\ \A t \in Threads : Mgr(t) = m => pub[t].pc = "idle"
  /\ stopped' = [stopped EXCEPT ![m] = "closed"]
  /\ UNCHANGED <<mgrVars, histVars, cliVars, sessVars, admVars, scanVars,
                 colVars, sorting, wire, walk, parse>>

\* an acquisition loop runs until Run returns; while ctx.Done() and the
\* ticker are both ready the select may still take the tick
ShutPublisher ==
  \E t \in Threads :
    /\ stopped[Mgr(t)] # "closed"
    /\ Alone(Mgr(t)) /\ TickOK(t, MaxPub) /\ PublisherStep(t)
Cancel == \E m \in Mgrs : Alone(m) /\ cancelRun(m)
Close == \E m \in Mgrs : closeManager(m)

ShutdownNext ==
  \/ ShutPublisher
  \/ Subscriber
  \/ Consumer
  \/ UnsubBegin
  \/ UnsubClose
  \/ Cancel
  \/ Close

ShutdownSpec == InitPlain /\ [][ShutdownNext]_vars

\* ======================================================================
\* The ordering of a snapshot's processes: SortSpec
\* ======================================================================
InitSort ==
  /\ Built
  /\ hist = "none"
  /\ walk = NotWalking
  /\ parse = NotParsing
  /\ \E l \in SortInputs : sorting = [NotSorting EXCEPT !.in = l]

\* performScan: sort.Slice(processes, less)
sortProcesses ==
  /\ ~sorting.done
  /\ sorting' = [sorting EXCEPT !.out = SortSlice(sorting.in), !.done = TRUE]
  /\ UNCHANGED <<mgrVars, histVars, cliVars, sessVars, admVars, scanVars,
                 colVars, stopped, wire, walk, parse>>

SortSpec == InitSort /\ [][sortProcesses]_vars

\* ======================================================================
\* Properties of the broadcast primitive (checked under Spec / LiveSpec)
\* ======================================================================
Created(m, s) == subGpu[m][s] # NoGpu
Registered(m, s) == Created(m, s) /\ s \in subscribers[m][subGpu[m][s]]
Range(q) == {q[i] : i \in 1..Len(q)}
Increasing(q) == \A i, j \in 1..Len(q) : i < j => q[i] < q[j]
\* a publish of the subscriber's key that still has to call send on it
InFlight(m, s) ==
  \E t \in Threads : Mgr(t) = m /\ pub[t].pc \in {"deliver", "drop", "retry"}
                     /\ s \in pub[t].targets
\* unsubscribe() calls that have returned
UnsubReturned(m, s) == unsubCalls[m][s] - (IF mu[m] = s THEN 1 ELSE 0)

\* C1: a mailbox never holds more than one value, and once N >= 1 sends to
\* a subscriber have returned with no receive in between (and no send is
\* halfway), the mailbox holds exactly the value of the last of them, which
\* is what the next receive yields.
CoalescingLatestWins ==
  \A m \in Mgrs, s \in SubIds :
    /\ Len(chan[m][s]) <= 1
    /\ (sinceRecv[m][s] >= 1 /\ subMu[m][s] = Free)
         => chan[m][s] = <<lastSend[m][s]>>

CoalescedTwoWitness ==
  \E m \in Mgrs, s \in SubIds :
    /\ sinceRecv[m][s] >= 2
    /\ subMu[m][s] = Free
    /\ lastSend[m][s] >= 2
    /\ chan[m][s] = <<lastSend[m][s]>>

\* C2: every publish that has started completes (the loop is back at its
\* select, ready for the next tick) whatever the consumers do, including
\* never receiving.
PublishNeverBlocks ==
  \A t \in Threads : (pub[t].pc # "idle") ~> (pub[t].pc = "idle")

SlowConsumerWitness ==
  \E m \in Mgrs, s \in SubIds :
    /\ Registered(m, s)
    /\ sinceRecv[m][s] >= 2
    /\ chan[m][s] = <<MaxPub>>
    /\ \A t \in Threads : pub[t].pc = "idle"
    /\ latest[m][subGpu[m][s]] = MaxPub

\* C3 as stated: the first receive of a subscriber that found a cached value
\* returns that cached value.
FirstReceiveIsCachedValue ==
  \A m \in Mgrs, s \in SubIds :
    (cachedAtSub[m][s] # 0 /\ recvd[m][s] # <<>>)
      => recvd[m][s][1] = cachedAtSub[m][s]

\* C3 amended: Subscribe leaves the cached value in the new mailbox; the
\* first receive returns it unless a later publish replaced it in the mailbox
\* first, and then returns that later value, never an older one.
ReplayOnSubscribe ==
  \A m \in Mgrs, s \in SubIds :
    cachedAtSub[m][s] # 0 =>
      /\ (recvd[m][s] = <<>> /\ ~liveBefore[m][s])
           => chan[m][s] = <<cachedAtSub[m][s]>>
      /\ (recvd[m][s] # <<>> /\ ~liveBefore[m][s])
           => recvd[m][s][1] = cachedAtSub[m][s]
      /\ recvd[m][s] # <<>> => recvd[m][s][1] >= cachedAtSub[m][s]

ReplayReplacedWitness ==
  \E m \in Mgrs, s \in SubIds :
    /\ cachedAtSub[m][s] # 0
    /\ recvd[m][s] # <<>>
    /\ recvd[m][s][1] > cachedAtSub[m][s]

\* C4: a value published to a key is placed into the mailbox of a subscriber
\* of that key exactly once, by the replay or by the live delivery: no value
\* is placed twice, and every value cached at or published after the
\* subscription has been placed, unless its send is still to come.
ReplayOrLiveExactlyOnce ==
  \A m \in Mgrs, s \in SubIds :
    Created(m, s) =>
      /\ \A i, j \in 1..Len(puts[m][s]) : i # j => puts[m][s][i] # puts[m][s][j]
      /\ (Registered(m, s) /\ ~subClosed[m][s]) =>
           \A v \in 1..latest[m][subGpu[m][s]] :
             v >= cachedAtSub[m][s] =>
               \/ v \in Range(puts[m][s])
               \/ v = latest[m][subGpu[m][s]] /\ InFlight(m, s)

ReplayThenLiveWitness ==
  \E m \in Mgrs, s \in SubIds :
    /\ Registered(m, s)
    /\ cachedAtSub[m][s] # 0
    /\ puts[m][s] = <<cachedAtSub[m][s], cachedAtSub[m][s] + 1>>

UnsubscribeIdempotentSafe ==
  /\ [](/\ ~panicked
        /\ \A m \in Mgrs, s \in SubIds :
             UnsubReturned(m, s) >= 1 =>
               /\ ~Registered(m, s)
               /\ chanClosed[m][s]
               /\ subClosed[m][s])
  /\ [][\A m \in Mgrs, s \in SubIds :
          chanClosed[m][s] => /\ puts'[m][s] = puts[m][s]
                              /\ Len(chan'[m][s]) <= Len(chan[m][s])]_vars

UnsubscribeTwiceDuringPublishWitness ==
  \E m \in Mgrs, s \in SubIds :
    /\ UnsubReturned(m, s) = 2
    /\ InFlight(m, s)
    /\ chanClosed[m][s]

\* ======================================================================
\* Properties of the WebSocket session (checked under SessionSpec)
\* ======================================================================
Data == {"stats", "procs"}
\* a step in which wsWriter hands the head of the outbound queue to the client
Written == wPc = "run" /\ wPc' = "run" /\ outQ # <<>> /\ outQ' = Tail(outQ)
\* a step in which a message is put at the end of the outbound queue
Appended == outQ' # outQ /\ outQ' # <<>> /\ (outQ = <<>> \/ outQ' # Tail(outQ))
\* the last switchSubscription call went from a bound device to another one
Switched ==
  sPc = "loop" /\ sw.result = "ok" /\ sw.gpu # NoGpu /\ currentGPU # sw.gpu

\* C7 as stated: once a session bound to A has processed subscribe{B}, every
\* stats or procs message written to the client is for B, none for A.
SwitchedClientGetsOnlyNewDevice ==
  [][(Switched /\ Written /\ Head(outQ).type \in Data)
       => Head(outQ).gpu = currentGPU]_vars

\* C7 amended: once the switch is processed the session holds no subscription
\* for another device than the current one, and every stats or procs message
\* it puts into its outbound queue is for the current device; messages for
\* the old device queued before the switch may still be written.
SwitchStopsRelayingOldDevice ==
  /\ [](sPc = "loop" /\ sw.result = "ok"
          => \A m \in Mgrs, s \in SubIds :
               Registered(m, s) => subGpu[m][s] = currentGPU /\ SessCh(m) = s)
  /\ [][(Appended /\ outQ'[Len(outQ')].type \in Data)
          => sPc = "loop" /\ outQ'[Len(outQ')].gpu = currentGPU]_vars

\* after a switch the queue holds a message of the old device in front of
\* one of the new device
StaleQueuedBeforeNewWitness ==
  /\ Switched
  /\ \E i, j \in DOMAIN outQ :
       /\ i < j
       /\ outQ[i].type \in Data /\ outQ[i].gpu = sw.gpu
       /\ outQ[j].type \in Data /\ outQ[j].gpu = currentGPU

\* C8 as stated: a switchSubscription call that fails leaves the session's
\* current device and its two subscriptions exactly as they were before.
FailedSwitchLeavesSessionAsBefore ==
  (sPc = "loop" /\ sw.result = "failed")
    => /\ currentGPU = sw.gpu
       /\ subCh = sw.sub
       /\ procCh = sw.proc
       /\ sw.sub # 0 => Registered("sampler", sw.sub)
       /\ sw.proc # 0 => Registered("proc", sw.proc)

\* a failed switch from a bound device has been processed
FailedSwitchWitness ==
  sPc = "loop" /\ sw.result = "failed" /\ sw.gpu # NoGpu /\ sw.sub # 0

\* C9: when handleWS has returned, whatever ended the session, no subscriber
\* of the session is registered with a manager and every mailbox it had is
\* closed.
TeardownUnsubscribesBoth ==
  sPc = "exited"
    => \A m \in Mgrs, s \in SubIds :
         Created(m, s) => ~Registered(m, s) /\ chanClosed[m][s]

\* a session that held both subscriptions has exited after a write error
ExitedAfterWriteErrorWitness ==
  /\ sPc = "exited"
  /\ wPc = "failed"
  /\ unsubscribe # 0
  /\ procUnsubscribe # 0

\* ======================================================================
\* Properties of the admission (checked under AdmitSpec)
\* ======================================================================
Admitted == {c \in Conns : att[c].pc \in {"accept", "session"}}

\* C10: the admitted sessions never exceed the limit; an attempt that finds
\* the counter at the limit is rejected, never reaches the handshake, and
\* its rejection changes neither the counter nor any other connection nor
\* the running session.
AdmissionWithinLimit ==
  /\ [](Cardinality(Admitted) <= maxWSClients /\ wsActive <= maxWSClients)
  /\ [][\A c \in Conns :
          /\ (att[c].pc = "loaded" /\ att[c].cur >= maxWSClients
                /\ att'[c] # att[c]) => att'[c].pc = "rejected"
          /\ att[c].pc = "rejected" => att'[c] = att[c]
          /\ (att[c].pc # "rejected" /\ att'[c].pc = "rejected")
               => /\ wsActive' = wsActive
                  /\ \A o \in Conns \ {c} : att'[o] = att[o]
                  /\ sessVars' = sessVars
                  /\ mgrVars' = mgrVars]_vars

\* the limit is reached, one attempt lost a race and went round again, and a
\* further attempt was rejected
RejectedAtCapacityWitness ==
  /\ Cardinality(Admitted) = maxWSClients
  /\ wsRejected > 0
  /\ \E c \in Conns : att[c].pc = "rejected"
  /\ \E c \in Admitted : att[c].loads > 1

\* ======================================================================
\* Properties of the process scan (checked under ScanSpec)
\* ======================================================================
\* what a scan leaves behind for consumers and for the next scan
ScanOutcome == <<latest, snap, prevEngine, lastScan, lastScanTime, chan, pub>>

\* C11: a tick whose collect step fails (the process root cannot be read)
\* publishes nothing and starts no scan: the cached snapshot of every
\* device, the mailboxes, the previous engine totals and the last-scan
\* timestamp are as before; only a warning is logged.
FailedCollectChangesNothing ==
  [][(clock' # clock /\ ~procfs'.ok)
       => /\ ScanOutcome' = ScanOutcome
          /\ scanWarns' = scanWarns + 1]_vars

\* a collect failed after a scan had cached a snapshot with engine totals
\* for device A and delivered it to a subscriber
FailedCollectAfterScanWitness ==
  /\ scanWarns > 0
  /\ ~procfs.ok
  /\ clock > lastScanTime
  /\ snap["A"].ok
  /\ snap["A"].timestamp = lastScanTime
  /\ prevEngine["A"] # NoTotals
  /\ \E s \in SubIds : Registered("proc", s) /\ chan["proc"][s] # <<>>

\* the raw process a collection found for a pid on a device
RawOf(sn, p, k) == CHOOSE r \in sn.procs : r.pid = p /\ r.gpu = k
\* the snapshots that the latest successful collection has produced so far
Current(k) == snap[k].ok /\ seen.cur.ok /\ snap[k].timestamp = seen.cur.now
Listed(k) == {snap[k].processes[i] : i \in 1..Len(snap[k].processes)}
\* a listed process with an engine total in both of the last two collections
Continued(p, k) ==
  /\ <<p.pid, k>> \in EnginePairs(seen.cur)
  /\ <<p.pid, k>> \in EnginePairs(seen.prev)
EngineDelta(p, k) ==
  RawOf(seen.cur, p.pid, k).engineTotal - RawOf(seen.prev, p.pid, k).engineTotal

\* C14: a process of a snapshot has a rate only if the same pid had an
\* engine total recorded for that device in the successful scan immediately
\* before the one that produced the snapshot: never in the first scan, on a
\* first appearance, or on a reappearance after a scan without it.
RateOnlyWithBaseline ==
  \A k \in Devices : Current(k) =>
    \A p \in Listed(k) :
      p.rate.ok => seen.prev.ok /\ <<p.pid, k>> \in EnginePairs(seen.prev)

\* a pid with engine time is back on a device after a scan without it, and
\* its rate is null
ReappearedWithoutRateWitness ==
  \E k \in Devices :
    /\ Current(k)
    /\ \E p \in Listed(k) :
         /\ ~p.rate.ok
         /\ <<p.pid, k>> \in EnginePairs(seen.cur)
         /\ <<p.pid, k>> \notin EnginePairs(seen.prev)
         /\ <<p.pid, k>> \in seen.older

\* C15: a process whose engine total is below the one recorded for it in
\* the preceding scan (counter reset, pid reuse) has a null rate, and no
\* rate of any snapshot is negative.
CounterResetGivesNoRate ==
  /\ \A k \in Devices : \A p \in Listed(k) : p.rate.ok => p.rate.ms >= 0
  /\ \A k \in Devices : Current(k) =>
       \A p \in Listed(k) :
         (Continued(p, k) /\ EngineDelta(p, k) < 0) => ~p.rate.ok

\* a total fell from one scan to the next and the process is listed
\* without rate
CounterResetWitness ==
  \E k \in Devices :
    /\ Current(k)
    /\ \E p \in Listed(k) :
         Continued(p, k) /\ EngineDelta(p, k) < 0 /\ ~p.rate.ok

\* C16: with a baseline from the preceding successful scan, a positive time
\* since that scan and a total not below the baseline, the rate is the
\* increase in milliseconds (nanoseconds / 1,000,000) divided by the
\* seconds elapsed since that scan.
RateIsDeltaPerSecond ==
  \A k \in Devices : Current(k) =>
    \A p \in Listed(k) :
      (/\ Continued(p, k)
       /\ seen.cur.now - seen.prev.now > 0
       /\ EngineDelta(p, k) >= 0)
        => /\ p.rate.ok
           /\ p.rate.ms = EngineDelta(p, k) \div 1000000
           /\ p.rate.per = seen.cur.now - seen.prev.now

\* 50,000,000 ns, then 400,000,000 ns two seconds later: 350 ms over 2 s,
\* that is 175 ms/s; and the same over 4 s after a failed collection
RateOverTwoSecondsWitness ==
  \E k \in Devices :
    /\ Current(k)
    /\ \E p \in Listed(k) :
         /\ Continued(p, k)
         /\ RawOf(seen.prev, p.pid, k).engineTotal = 50000000
         /\ RawOf(seen.cur, p.pid, k).engineTotal = 400000000
         /\ seen.cur.now - seen.prev.now = 2
         /\ p.rate = [ok |-> TRUE, ms |-> 350, per |-> 2]

\* ======================================================================
\* Properties of scanProcess (checked under CollectSpec)
\* ======================================================================
PosIds == {c \in ClientIds : c > 0}
Max0(x) == IF x > 0 THEN x ELSE 0
\* the sum, over the client-ids read on a device, of their largest readings
SumOfMaxima(g) ==
  [VRAM |-> SumOver([c \in PosIds |-> CallMax(g, c).VRAM], PosIds),
   GTT |-> SumOver([c \in PosIds |-> CallMax(g, c).GTT], PosIds)]
\* the sum of the readings of the descriptors without client-id
Unnumbered(g) ==
  LET S == UNION {MemoryReads(g, c) : c \in ClientIds \ PosIds} IN
  [VRAM |-> SumOver([d \in S |-> CopiesIn(d, fdHist.read) * d.m.VRAMBytes], S),
   GTT |-> SumOver([d \in S |-> CopiesIn(d, fdHist.read) * d.m.GTTBytes], S)]
\* the step reads descriptor d
Reads(d) == fdHist'.read = fdHist.read (+) SetToBag({d})
\* what the step adds to the process's memory on the descriptor's device
Added(d) ==
  [VRAM |-> result'[d.gpu].vramBytes
              - Get(result, d.gpu, NewRaw(d.gpu)).vramBytes,
   GTT |-> result'[d.gpu].gttBytes
             - Get(result, d.gpu, NewRaw(d.gpu)).gttBytes]

\* C12: in one scan of one process, the VRAM (and the GTT) accumulated for
\* a device is the sum, over the positive client-ids read on it, of the
\* largest reading of each client-id, plus the readings of the descriptors
\* without client-id, in whatever order the descriptors were read.
MemoryIsSumOfClientMaxima ==
  \A g \in DOMAIN result :
    /\ result[g].vramBytes = SumOfMaxima(g).VRAM + Unnumbered(g).VRAM
    /\ result[g].gttBytes = SumOfMaxima(g).GTT + Unnumbered(g).GTT

\* client 7 was read with 128 MiB and with 200 MiB on one device, nothing
\* else was: the process has 200 MiB of VRAM there, and the 64 MiB of GTT
\* that only the smaller reading carried
SameClientTwiceWitness ==
  \E g \in DOMAIN result :
    /\ {d.m.VRAMBytes : d \in MemoryReads(g, 7)} = {128, 200}
    /\ MemoryReads(g, 8) = {} /\ MemoryReads(g, 0) = {}
    /\ result[g].vramBytes = 200
    /\ result[g].gttBytes = 64

Collected == {result[g] : g \in DOMAIN result}
SnapshotNow(g) ==
  BuildSnapshot(g, [now |-> StartTime, elapsed |-> 0, procs |-> Collected],
                NoTotals)

\* C18: a device's snapshot has vramGttAvailable (resp. engineTimeAvailable)
\* exactly when some matched descriptor on that device yielded memory data
\* (resp. engine-time data) in that scan, zero values included.
FlagsTellDataFromNoData ==
  \A g \in ProcGpus :
    /\ SnapshotNow(g).vramGtt
         <=> \E d \in BagToSet(fdHist.read) : d.gpu = g /\ d.m.HasMemory
    /\ SnapshotNow(g).engineTime
         <=> \E d \in BagToSet(fdHist.read) : d.gpu = g /\ d.m.HasEngine

\* the only descriptor read on a device is that of client 7 with memory and
\* engine lines that are all zero: the engine flag is set, the memory flag
\* is not
ZeroMemoryOfClientWitness ==
  \E g \in DOMAIN result :
    /\ BagToSet(fdHist.read) = {[gpu |-> g, m |-> x] : x \in IdleClient}
    /\ SnapshotNow(g).engineTime
    /\ ~SnapshotNow(g).vramGtt

\* ======================================================================
\* Properties of the ordering (checked under SortSpec)
\* ======================================================================
TotalBytes(p) == p.vram + p.gtt

\* C17: a snapshot lists its processes by descending (vramBytes + gttBytes),
\* ties by ascending pid, however a total is split between VRAM and GTT.
SortedByTotalMemory ==
  sorting.done =>
    \A i, j \in 1..Len(sorting.out) :
      i < j =>
        \/ TotalBytes(sorting.out[i]) > TotalBytes(sorting.out[j])
        \/ /\ TotalBytes(sorting.out[i]) = TotalBytes(sorting.out[j])
           /\ sorting.out[i].pid < sorting.out[j].pid

\* pids 5, 9 and 3 with totals 10, 30 and 30, pid 9 holding its 30 in GTT:
\* the list comes out as 3, 5, 9
GttHeavyProcessLastWitness ==
  /\ sorting.done
  /\ [i \in 1..Len(sorting.in) |->
        <<sorting.in[i].pid, sorting.in[i].vram, sorting.in[i].gtt>>]
       = <<(<<5, 10, 0>>), (<<9, 0, 30>>), (<<3, 30, 0>>)>>
  /\ [i \in 1..Len(sorting.out) |-> sorting.out[i].pid] = <<3, 5, 9>>

\* ======================================================================
\* Properties of shutdown and readiness (checked under ShutdownSpec, Spec)
\* ======================================================================
\* C19: once a manager has shut down (its context is cancelled and Close
\* has run), the mailbox of every subscriber still registered with it is
\* closed, so that a consumer blocked on it is released.
ShutdownClosesMailboxes ==
  \A m \in Mgrs : stopped[m] = "closed" =>
    \A s \in SubIds : Registered(m, s) => chanClosed[m][s]

\* a manager has shut down while a subscriber is registered whose mailbox is
\* empty and open: its consumer waits for ever
BlockedAfterCloseWitness ==
  \E m \in Mgrs, s \in SubIds :
    /\ stopped[m] = "closed"
    /\ Registered(m, s)
    /\ latest[m][subGpu[m][s]] # 0
    /\ chan[m][s] = <<>>
    /\ ~chanClosed[m][s]

\* samples a reader has produced: the sequence number of its latest one
Produced(id) == latest["sampler"][id]

LatestAlways(m, k) == [sample |-> latest[m][k], ok |-> TRUE]

\* Manager.Latest(gpuID): sample, ok := m.latest[gpuID]
Latest(m, k) == [sample |-> latest[m][k], ok |-> latest[m][k] # 0]

\* a publisher thread that holds a value it has stored and is handing out
Delivering(t) == pub[t].pc = "deliver"

\* the keys a manager has published nothing for so far
Unpublished(m) ==
  IF m = "sampler" THEN Devices \ Readers
  ELSE IF lastScan = 0 /\ pub[ProcThread].pc = "idle" THEN Devices ELSE {}

\* C21: the cache holds one value per key, the one published last: while a
\* published value is being handed out and no later one was published,
\* Latest returns it with found = true; found is false for a key nothing
\* was published for; and only a publishing step changes what Latest returns.
CacheHoldsLastPublished ==
  /\ [](/\ \A t \in Threads :
             Delivering(t) =>
               Latest(Mgr(t), pub[t].gpu) =
                 [sample |-> pub[t].val, ok |-> TRUE]
        /\ \A m \in Mgrs : \A k \in Unpublished(m) : ~Latest(m, k).ok
        /\ \A m \in Mgrs : \A k \in Devices :
             Latest(m, k).ok \/ Latest(m, k).sample = 0)
  /\ [][\A m \in Mgrs : \A k \in Devices :
          Latest(m, k)' # Latest(m, k) =>
            /\ Latest(m, k)'.ok
            /\ \E t \in Threads :
                 /\ Mgr(t) = m
                 /\ pub[t].pc \in {"idle", "scan"}
                 /\ Latest(m, k)'.sample =
                      IF m = "sampler" THEN Latest(m, k).sample + 1
                      ELSE pub[t].val]_vars

\* a second publish replaced the first one, another key was never published
OverwrittenAndMissingWitness ==
  /\ Latest("sampler", "A") = [sample |-> 2, ok |-> TRUE]
  /\ Delivering("A")
  /\ ~Latest("sampler", "C").ok

\* ---------------------------------------------------------------------
\* The session and its subscriptions
\* ---------------------------------------------------------------------

\* the subscriptions a manager has registered
Held(m) == {s \in SubIds : Registered(m, s)}

\* C22: a session is bound to at most one device at every moment: at most
\* one subscription is registered with the sampler and at most one with the
\* process scanner, the two are for the same device, and once the session
\* has settled on a current device they are for that device.
BoundToOneDevice ==
  /\ \A m \in Mgrs : Cardinality(Held(m)) <= 1
  /\ \A s \in Held("sampler") : \A p \in Held("proc") :
       subGpu["sampler"][s] = subGpu["proc"][p]
  /\ (subCh # 0 /\ procCh # 0) =>
       subGpu["sampler"][subCh] = subGpu["proc"][procCh]
  /\ (sPc = "loop" /\ currentGPU # NoGpu) =>
       \A m \in Mgrs : \A s \in Held(m) : subGpu[m][s] = currentGPU

\* after a switch from A both feeds are held, for B
BothFeedsOnNewDeviceWitness ==
  /\ sPc = "loop"
  /\ sw.result = "ok" /\ sw.gpu = "A"
  /\ currentGPU = "B"
  /\ Held("sampler") = {subCh}
  /\ Held("proc") = {procCh}
  /\ subGpu["proc"][procCh] = "B"

\* ---------------------------------------------------------------------
\* The session and the frames of its client: ProtocolSpec
\* ---------------------------------------------------------------------
ProtoFrame == \E f \in ProtoFrames : ReaderFrame(f)

\* the sampler loop of the default device acquires; the other acquisition
\* loops stay idle here
ProtoAcquire ==
  TickOK(DefaultGPU, MaxTicks) /\ PublisherStep(DefaultGPU)

ProtoNext ==
  \/ ProtoAcquire
  \/ SessStart
  \/ SessDefault
  \/ SessUnsubBegin
  \/ SessUnsubClose
  \/ SwSubscribe
  \/ SwProcSubscribe
  \/ SessRelay
  \/ HandleMessage
  \/ MessageChGone
  \/ OnReadErr
  \/ OnCtxDone
  \/ TdClose
  \/ TdWait
  \/ ProtoFrame
  \/ ReaderError
  \/ WriterWrite
  \/ WriterFail
  \/ WriterExit
  \/ CtxCancel

ProtocolSpec == InitWire /\ [][ProtoNext]_vars

\* the frame the select loop is about to handle
Handling(types) ==
  /\ sPc = "loop"
  /\ messageChState # "nil"
  /\ messageCh # <<>>
  /\ Head(messageCh).type \in types
  /\ messageCh' = Tail(messageCh)

\* the session's hold on its device
Binding ==
  <<currentGPU, subCh, unsubscribe, procCh, procUnsubscribe, subscribers,
    subGpu, chan, subClosed, chanClosed>>

\* C23: a subscribe for the device the session is bound to is a no-op: no
\* subscription is removed or made, nothing is put on the outbound queue,
\* the mailboxes and the current device stay as they are, and the session
\* stays in its loop.
SameDeviceSubscribeIsNoOp ==
  [][(/\ Handling({"subscribe"})
      /\ currentGPU # NoGpu
      /\ handleClientMessage(Head(messageCh)).target = currentGPU)
     => /\ UNCHANGED <<Binding, outQ, mgrVars>>
        /\ sPc' = "loop"]_vars

\* the bound device was asked for again and the session is as before
ResubscribedWitness ==
  /\ sPc = "loop"
  /\ wire.last = [type |-> "subscribe", gpu |-> "A"]
  /\ currentGPU = "A"
  /\ sw.result = "ok" /\ sw.gpu = NoGpu
  /\ Held("sampler") = {subCh}
  /\ Held("proc") = {procCh}
  /\ Len(outQ) <= 1

\* the outbound queue after a message went on it
Enqueued(msg) ==
  /\ outQ' # <<>>
  /\ outQ'[Len(outQ')] = msg
  /\ Len(outQ) < wsSendQueueSize => outQ' = Append(outQ, msg)

\* C24: a subscribe that names a device id the server does not know is
\* answered with an error message on the session's outbound queue; the
\* connection stays open (the loop goes on, nothing is closed or cancelled),
\* and the current device, the subscriptions and their mailboxes are
\* unchanged.
UnknownDeviceAnsweredWithError ==
  [][(/\ Handling({"subscribe"})
      /\ handleClientMessage(Head(messageCh)).target \notin GpuIndex)
     => /\ Enqueued(ErrorMsg)
        /\ UNCHANGED <<Binding, mgrVars, outClosed, ctxDone, wPc, rPc>>
        /\ sPc' = "loop"
        /\ ~outClosed']_vars

\* the unknown device was refused and the session still holds device A
UnknownDeviceRefusedWitness ==
  /\ sPc = "loop"
  /\ wire.last = [type |-> "subscribe", gpu |-> UnknownGpu]
  /\ outQ # <<>> /\ outQ[Len(outQ)] = ErrorMsg
  /\ currentGPU = "A"
  /\ Held("sampler") = {subCh}
  /\ Held("proc") = {procCh}
  /\ ~outClosed /\ ~ctxDone

\* C25: a frame that is not well-formed JSON is logged and ignored: nothing
\* is put on the outbound queue, the session's device, subscriptions and
\* mailboxes stay as they are, and the connection stays open.
MalformedIsIgnored ==
  [][Handling({"malformed"})
     => /\ UNCHANGED <<outQ, Binding, mgrVars, outClosed, ctxDone, wPc, rPc>>
        /\ sPc' = "loop"
        /\ ~outClosed']_vars

\* C25 as stated: a malformed frame is answered with an error message and
\* the connection stays open.
MalformedAnsweredWithError ==
  [][Handling({"malformed"})
     => /\ Enqueued(ErrorMsg)
        /\ sPc' = "loop"
        /\ ~outClosed']_vars

\* a malformed frame was handled and only the hello was ever queued
MalformedUnansweredWitness ==
  /\ sPc = "loop"
  /\ wire.last = [type |-> "malformed", gpu |-> NoGpu]
  /\ wire.first = "none"
  /\ outQ = <<HelloMsg>>
  /\ currentGPU = "A"
  /\ ~outClosed /\ ~ctxDone

\* a frame that handleClientMessage answers or ignores on the spot
Refused(f) ==
  LET h == handleClientMessage(f) IN
  h.act \in {"ignore", "error"}
    \/ (h.act = "switch" /\ SwitchCheck(h.target, currentGPU) = "error")

\* C26: no inbound message ends the session: after a malformed frame, a
\* message of unknown type or a subscribe that fails, the select loop is
\* running and the session holds the device and the subscriptions it had:
\* both for a frame refused on the spot and for a switch that fails at
\* sampler.Subscribe.
BadFrameLeavesSessionRelaying ==
  [][/\ (Handling({"malformed", "other", "subscribe_undecodable",
                   "subscribe"}) /\ Refused(Head(messageCh)))
          => (sPc' = "loop" /\ UNCHANGED Binding)
     /\ (sw.result = "running" /\ sw'.result = "failed")
          => /\ sPc' = "loop"
             /\ currentGPU' = sw'.gpu
             /\ subCh' = sw'.sub
             /\ sw'.sub # 0 => sw'.sub \in Held("sampler")']_vars

\* the subscribe for a device without reader has failed: the loop runs, the
\* current device is still A, and no subscription is left to relay from
FailedSubscribeStopsRelayWitness ==
  /\ sPc = "loop"
  /\ wire.last = [type |-> "subscribe", gpu |-> "C"]
  /\ sw.result = "failed" /\ sw.gpu = "A" /\ sw.sub # 0
  /\ currentGPU = "A"
  /\ subCh = 0 /\ procCh = 0
  /\ Held("sampler") = {} /\ Held("proc") = {}

\* ---------------------------------------------------------------------
\* A client that sends pings faster than the writer transmits: FloodSpec
\* ---------------------------------------------------------------------
\* enough pings to fill the outbound queue behind the hello and push a
\* pong out of it
MaxPings == wsSendQueueSize + 1

PingFrame == ReadFrame([type |-> "ping", gpu |-> NoGpu], MaxPings)

\* the steps of the handleWS goroutine
SessionStep ==
  \/ SessStart
  \/ SessDefault
  \/ SessUnsubBegin
  \/ SessUnsubClose
  \/ SwSubscribe
  \/ SwProcSubscribe
  \/ HandleMessage
  \/ MessageChGone
  \/ OnReadErr
  \/ OnCtxDone
  \/ TdClose
  \/ TdWait

\* the steps of the wsWriter goroutine
WriterStep == WriterWrite \/ WriterFail \/ WriterExit

FloodNext ==
  \/ SessionStep
  \/ WriterStep
  \/ PingFrame
  \/ ReaderError
  \/ CtxCancel

FloodSpec == InitWire /\ [][FloodNext]_vars

\* ... with goroutines that are scheduled as long as they can take a step
FloodLiveSpec ==
  FloodSpec /\ WF_vars(SessionStep) /\ WF_vars(WriterStep)

\* C27: the hello is the first message put on the outbound queue and the
\* writer transmits in queue order, so nothing is transmitted ahead of the
\* hello; the first message transmitted is the hello unless the full queue
\* dropped the hello before the writer took it.
HelloFirstUnlessDropped ==
  /\ \A i \in 1..Len(outQ) : outQ[i] = HelloMsg => i = 1
  /\ wire.first \in {"none", "hello"} \/ wire.lostHello
  /\ wire.lostHello => wire.first # "hello"
  /\ (outQ # <<>> /\ outQ[1] = HelloMsg) => wire.first = "none"

\* C27 as stated: the first message transmitted on a session is the hello.
HelloAlwaysFirst == wire.first \in {"none", "hello"}

\* the queue overflowed before the first write: a pong went out first
PongBeforeHelloWitness ==
  /\ wire.first = "pong"
  /\ wire.lostHello
  /\ wire.pongs = 1

\* the session is ending or has ended: its context is cancelled, its reader
\* or its writer has returned, or handleWS has left the select loop
Over ==
  \/ ctxDone
  \/ rPc = "done"
  \/ wPc # "run"
  \/ sPc \in {"td_unsub_sampler", "td_close_sampler", "td_unsub_proc",
              "td_close_proc", "td_close", "td_wait", "exited"}

\* C28: every ping a session reads is answered with a pong on the outbound
\* queue, and each pong is in the end transmitted or dropped from the full
\* queue, unless the session ends first: the pongs transmitted and the
\* pongs dropped come to equal the pings read.
PingsAnsweredUnlessDropped ==
  <>[](Over \/ wire.pongs + wire.lostPongs = wire.pings)

\* C28 as stated: every ping is answered by a transmitted pong unless the
\* session ends first.
PingsAlwaysAnswered ==
  <>[](Over \/ wire.pongs = wire.pings)

\* a pong was dropped from the full queue, the others were transmitted
PongDroppedWitness ==
  /\ ~Over
  /\ wire.lostPongs = 1
  /\ wire.pings = MaxPings
  /\ wire.pongs = MaxPings - 1
  /\ outQ = <<>>

\* ---------------------------------------------------------------------
\* Descriptors without client-id
\* ---------------------------------------------------------------------
\* a descriptor with memory lines and no client-id
Anonymous(d) == d.m.HasMemory /\ d.m.ClientID <= 0

\* C29: for descriptors without client-id the VRAM and GTT of a process on a
\* device are the plain sum of the readings: every such descriptor adds its
\* whole reading, however often the same reading occurs, and a device on
\* which only such descriptors were read has exactly their sum.
AnonymousReadingsAddUp ==
  /\ [](\A g \in DOMAIN result :
          (\A c \in PosIds : MemoryReads(g, c) = {})
            => /\ result[g].vramBytes = Unnumbered(g).VRAM
               /\ result[g].gttBytes = Unnumbered(g).GTT)
  /\ [][\A d \in FdReads :
          (Reads(d) /\ Anonymous(d))
            => /\ Added(d) = [VRAM |-> d.m.VRAMBytes, GTT |-> d.m.GTTBytes]
               /\ result'[d.gpu].hasMemory]_vars

\* the same reading, 128 MiB of VRAM and 64 MiB of GTT, came from two
\* descriptors without client-id: the process has 256 and 128
SameAnonymousReadingTwiceWitness ==
  \E g \in DOMAIN result : \E d \in BagToSet(fdHist.read) :
    /\ d.gpu = g /\ Anonymous(d)
    /\ d.m.VRAMBytes = 128 /\ d.m.GTTBytes = 64
    /\ CopiesIn(d, fdHist.read) = 2
    /\ fdHist.total = 2
    /\ result[g].vramBytes = 256
    /\ result[g].gttBytes = 128

\* ======================================================================
\* The walk over the process root: collector.collect, WalkSpec
\* ======================================================================
MaxPIDs == 2       \* c.maxPIDs (APP_PROC_MAX_PIDS)
MaxEntries == 4    \* entries of the process root in one scan

\* an entry of the process root, by what the loop of collect() makes of it:
\* not a directory or not a pid ("other"), a process directory that cannot
\* be opened ("denied"), a process without descriptor of a known device
\* ("idle": scanProcess returns nothing), a process that uses a device
\* ("gpu"), a process whose comm or status cannot be read ("unreadable":
\* scanProcess returns nil before it reads the fd directory)
EntryKinds == {"other", "denied", "unreadable", "idle", "gpu"}
\* ... those of a process that fails
FailKinds == {"denied", "unreadable"}

RECURSIVE SeqsUpTo(_, _)
SeqsUpTo(S, n) ==
  IF n = 0 THEN {<<>>}
  ELSE LET shorter == SeqsUpTo(S, n - 1) IN
       shorter \cup {Append(l, x) : l \in shorter, x \in S}

\* the directory listing: the pid of an entry is its place in it
Numbered(l) == [i \in 1..Len(l) |-> [pid |-> i, kind |-> l[i]]]

\* collect() at its start, on a listing
Start(es) == [NotWalking EXCEPT !.entries = es, !.idx = 1]

InitWalk ==
  /\ Built
  /\ hist = "none"
  /\ sorting = NotSorting
  /\ parse = NotParsing
  /\ \E l \in SeqsUpTo(EntryKinds, MaxEntries) : walk = Start(Numbered(l))

SkipCounted(w) == [w EXCEPT !.idx = @ + 1, !.scanned = @ + 1]
\* collect(): `continue` for a process directory that OpenRoot refuses or
\* whose scanProcess call returned nil on an error
Skip(w) == [w EXCEPT !.idx = @ + 1]

\* collect(): one round of `for _, entry := range entries`, or its end
collectRound(w) ==
  LET e == w.entries[w.idx] IN
  IF w.idx > Len(w.entries) \/ (MaxPIDs > 0 /\ w.scanned >= MaxPIDs)
  THEN [w EXCEPT !.done = TRUE]
  ELSE IF e.kind = "other" THEN [w EXCEPT !.idx = @ + 1]
  ELSE IF e.kind \in FailKinds THEN Skip(w)
  ELSE IF e.kind = "idle"
  THEN [w EXCEPT !.idx = @ + 1, !.opened = @ + 1]
  ELSE [w EXCEPT !.idx = @ + 1, !.opened = @ + 1, !.scanned = @ + 1,
                 !.collected = Append(@, e.pid)]

collectEntry ==
  /\ ~walk.done
  /\ walk' = collectRound(walk)
  /\ UNCHANGED <<mgrVars, histVars, cliVars, sessVars, admVars, scanVars,
                 colVars, sorting, stopped, wire, parse>>

WalkSpec == InitWalk /\ [][collectEntry]_vars

\* C30: a scan inspects at most MaxPIDs candidate processes: no more than
\* MaxPIDs process directories have their descriptor table opened in one
\* scan, whether or not the processes examined use a device.
AtMostMaxPIDsExamined == walk.opened <= MaxPIDs

\* the scan has ended after opening the descriptor table of more than
\* MaxPIDs processes, none of which used a device
IdleProcessesNotCountedWitness ==
  /\ walk.done
  /\ walk.opened > MaxPIDs
  /\ walk.scanned = 0
  /\ \A i \in 1..Len(walk.entries) : walk.entries[i].kind = "idle"

\* ---------------------------------------------------------------------
\* Processes that fail during the walk
\* ---------------------------------------------------------------------
\* collect() run to its end
RECURSIVE collect(_)
collect(w) == IF w.done THEN w ELSE collect(collectRound(w))

\* the listing without the processes that fail
Healthy(es) == SelectSeq(es, LAMBDA e : e.kind \notin FailKinds)

FrameWaiting == sPc = "loop" /\ messageChState # "nil" /\ messageCh # <<>>

MaxRetry == 2      \* subscribe frames the client sends

\* subscribe frames for the default device and for a device without reader
RetryFrames == {[type |-> "subscribe", gpu |-> k] : k \in {"A", "C"}}
RetryFrame == \E f \in RetryFrames : ReadFrame(f, MaxRetry)

RetryNext ==
  \/ ProtoAcquire
  \/ SessionStep
  \/ SessRelay
  \/ WriterStep
  \/ RetryFrame
  \/ ReaderError
  \/ CtxCancel

RetrySpec == InitWire /\ [][RetryNext]_vars

\* C33: between two requests, whenever the session's current device is set
\* the session holds an open, registered sampler subscription for that
\* device; so a subscribe for a device with a working sampler leaves the
\* session streaming it, also right after a failed switch.
CurrentDeviceIsStreamed ==
  (sPc = "loop" /\ currentGPU # NoGpu)
    => /\ subCh # 0
       /\ Held("sampler") = {subCh}
       /\ subGpu["sampler"][subCh] = currentGPU
       /\ ~chanClosed["sampler"][subCh]

\* after the failed switch to C the client has asked for A again: the
\* request was handled, the current device reads A, and the session holds no
\* subscription
ResubscribeAfterFailureIgnoredWitness ==
  /\ sPc = "loop"
  /\ inSent = 2 /\ messageCh = <<>>
  /\ wire.last = [type |-> "subscribe", gpu |-> "A"]
  /\ sw.result = "failed" /\ sw.gpu = "A"
  /\ currentGPU = "A"
  /\ subCh = 0
  /\ Held("sampler") = {}

\* ---------------------------------------------------------------------
\* Deliveries and the manager's lock
\* ---------------------------------------------------------------------
\* the step puts a value into mailbox s of manager m
Delivers(m, s) == chan'[m][s] # chan[m][s] /\ chan'[m][s] # <<>>

\* the step is (part of) a critical section of m.mu: it changes the cache or
\* the subscriber set of manager m
UnderLock(m) == latest'[m] # latest[m] \/ subscribers'[m] # subscribers[m]

\* the step registers s as a new subscriber of manager m
Registers(m, s) ==
  /\ ~Created(m, s)
  /\ subGpu'[m][s] # NoGpu
  /\ s \in subscribers'[m][subGpu'[m][s]]

\* C34 as stated: no value is put into a mailbox while the manager's lock
\* is held, neither by a live delivery nor by the replay of Subscribe.
NoDeliveryUnderLock ==
  [][\A m \in Mgrs, s \in SubIds : Delivers(m, s) => ~UnderLock(m)]_vars

\* C34: a live delivery is made by a publisher that has left its critical
\* section: the step changes neither cache nor subscriber set. The replay
\* of the cached value is made inside the critical section of Subscribe: the
\* step that registers a subscriber for a key with a cached value puts that
\* value into the new mailbox, and that is the only delivery under the lock.
OnlyReplayDeliversUnderLock ==
  [][\A m \in Mgrs, s \in SubIds :
       /\ (Delivers(m, s) /\ ~Registers(m, s))
            => /\ ~UnderLock(m)
               /\ \E t \in Threads :
                    /\ Mgr(t) = m
                    /\ pub[t].pc \in {"deliver", "retry"}
                    /\ s \in pub[t].targets \cup {pub[t].cur}
       /\ Registers(m, s)
            => /\ latest'[m] = latest[m]
               /\ chan'[m][s] =
                    IF latest[m][subGpu'[m][s]] # 0
                    THEN <<latest[m][subGpu'[m][s]]>> ELSE <<>>]_vars

\* a subscriber holds the value replayed to it by Subscribe, and nothing
\* else was ever sent to it
ReplayedUnderLockWitness ==
  \E m \in Mgrs, s \in SubIds :
    /\ Registered(m, s)
    /\ cachedAtSub[m][s] # 0
    /\ puts[m][s] = <<cachedAtSub[m][s]>>
    /\ chan[m][s] = <<cachedAtSub[m][s]>>
    /\ recvd[m][s] = <<>>

\* publishers, subscribers and consumers, without unsubscribe calls
DeliveryNext == Publisher \/ Subscriber \/ Consumer
DeliverySpec == Init /\ [][DeliveryNext]_vars

\* ======================================================================
\* The fdinfo parser: parseFDInfo, ParseSpec
\* ======================================================================
MaxLines == 3      \* lines of an fdinfo text

\* a line of an fdinfo text, by its prefix and its value: "drm-client-id: 7",
\* "drm-memory-vram: 128 MiB", "drm-engine-gfx: 50 ns", and a line with
\* another key and no number ("drm-driver: amdgpu")
FdLines ==
  {[key |-> "client", val |-> 7], [key |-> "client", val |-> 8],
   [key |-> "memory", val |-> 128], [key |-> "engine", val |-> 50],
   [key |-> "other", val |-> 0]}

InitParse ==
  /\ Built
  /\ hist = "none"
  /\ sorting = NotSorting
  /\ walk = NotWalking
  /\ \E l \in SeqsUpTo(FdLines, MaxLines) :
       parse = [NotParsing EXCEPT !.lines = l, !.idx = 1]

\* the first switch of the loop: a drm-memory or drm-engine prefix sets the
\* section, which no other line changes
SectionAfter(section, line) ==
  IF line.key = "memory" THEN "memory"
  ELSE IF line.key = "engine" THEN "engine"
  ELSE section

\* the second switch of the loop, on the section
MetricsAfter(metrics, section, line) ==
  IF section = "memory"
  THEN IF line.key = "memory"
       THEN [metrics EXCEPT
               !.VRAMBytes = IF line.val > @ THEN line.val ELSE @,
               !.HasMemory = TRUE]
       ELSE metrics
  ELSE IF section = "engine"
  THEN IF line.key = "engine"
       THEN [metrics EXCEPT !.EngineTotal = @ + line.val,
                            !.HasEngine = TRUE]
       ELSE metrics
  ELSE IF line.key = "client"
       THEN [metrics EXCEPT !.ClientID = line.val]
       ELSE metrics

\* parseFDInfo: one round of `for scanner.Scan()`, or its end
parseLine ==
  LET line == parse.lines[parse.idx]
      section == SectionAfter(parse.section, line) IN
  /\ ~parse.done
  /\ parse' =
       IF parse.idx > Len(parse.lines) THEN [parse EXCEPT !.done = TRUE]
       ELSE [parse EXCEPT
               !.idx = @ + 1,
               !.section = section,
               !.metrics = MetricsAfter(@, section, line)]
  /\ UNCHANGED <<mgrVars, histVars, cliVars, sessVars, admVars, scanVars,
                 colVars, sorting, stopped, wire, walk>>

ParseSpec == InitParse /\ [][parseLine]_vars

\* the client-id lines of the text
ClientLines == {i \in 1..Len(parse.lines) : parse.lines[i].key = "client"}

\* C35: the parser extracts the client-id whenever the text has such a
\* line, whatever section is current when the line is read: the metrics of
\* a text that was read to its end carry the id of its last client-id line.
ClientIdAlwaysExtracted ==
  (parse.done /\ ClientLines # {})
    => parse.metrics.ClientID =
         parse.lines[CHOOSE i \in ClientLines :
                       \A j \in ClientLines : j <= i].val

\* the client-id line came after a drm-memory line: the text was read to its
\* end, the memory was taken and the client-id was not
ClientIdAfterMemoryLostWitness ==
  /\ parse.done
  /\ parse.lines = <<[key |-> "memory", val |-> 128],
                     [key |-> "client", val |-> 7]>>
  /\ parse.metrics.VRAMBytes = 128
  /\ parse.metrics.HasMemory
  /\ parse.metrics.ClientID = 0

\* ======================================================================
\* Readiness over failed scans and shutdown: ReadySpec
\* ======================================================================
\* procscan Manager.Ready
ScannerReady == lastScanTime # ZeroTime

\* a tick of the scanner finds the process root readable or not
ReadyScan ==
  /\ stopped["proc"] # "closed"
  /\ Alone("proc")
  /\ Ticks < MaxPub
  /\ \E fs \in {f \in ProcFs : f.procs = {}} :
       performScanOn(ProcThread, fs, tickGap)

\* the managers from construction to the return of Run, with consumers
\* that subscribe and never receive
ReadyNext ==
  \/ ShutPublisher
  \/ ReadyScan
  \/ Subscriber
  \/ Cancel
  \/ Close

ReadySpec == InitPlain /\ [][ReadyNext]_vars

\* C36: readiness is monotonic: no step takes a manager whose Ready()
\* returns true to a state where it returns false, whether the step is a
\* failed scan, a cancellation or the Close of the manager.
ReadinessIsMonotonic ==
  [][/\ Ready => Ready'
     /\ ScannerReady => ScannerReady']_vars

\* the scanner was ready, its next scan failed, and its Run has returned
ReadyAfterFailedScanAndCloseWitness ==
  /\ ScannerReady
  /\ ~procfs.ok
  /\ scanWarns > 0
  /\ stopped["proc"] = "closed"

\* C37: whenever the scanner's Ready() is true, Latest(d) finds a snapshot
\* for every device the scanner knows: a successful scan publishes one
\* snapshot per known device, also for a device no process holds, before it
\* sets the time of the last scan.
ReadyScannerHasEverySnapshot ==
  ScannerReady =>
    \A i \in 1..Len(GpuOrder) : Latest("proc", GpuOrder[i]).ok

\* a scan that found processes on other devices only has finished: the
\* scanner is ready and the device without process has an empty snapshot
ReadyWithEmptySnapshotWitness ==
  /\ ScannerReady
  /\ pub[ProcThread].pc = "idle"
  /\ procfs.ok /\ procfs.procs # {}
  /\ Latest("proc", "C").ok
  /\ snap["C"].processes = <<>>

\* the attempts whose handler has returned after it was admitted
Exited == {c \in Conns : att[c].pc = "done"}

\* C38: the active-session counter always equals the number of sessions
\* admitted and not yet exited and is never negative; the return of an
\* admitted attempt's handler, also when the handshake failed, takes the
\* counter down by one and happens once; a rejection leaves it as it was.
ActiveCountsAdmitted ==
  /\ [](wsActive = Cardinality(Admitted) /\ wsActive >= 0)
  /\ [][\A c \in Conns :
          /\ (c \in Admitted /\ c \notin Admitted')
               => (c \in Exited' /\ wsActive' = wsActive - 1)
          /\ c \in Exited => att'[c] = att[c]
          /\ (att[c].pc # "rejected" /\ att'[c].pc = "rejected")
               => wsActive' = wsActive]_vars

\* one attempt was rejected at the limit, the handler of an admitted one has
\* returned since, and a third is admitted and before its handshake: the
\* counter reads one
CountAfterRejectAndExitWitness ==
  \E a, b, c \in Conns :
    /\ att[a].pc = "rejected"
    /\ att[b].pc = "done"
    /\ att[c].pc = "accept"
    /\ wsActive = 1

\* ======================================================================
\* The end of a session: ExitSpec
\* ======================================================================
\* conn.Read returns an error once the context it was given is cancelled
ReaderCancelled == ctxDone /\ ReaderError

\* the goroutines of the session and of the sampler are scheduled as long
\* as they can take a step
ExitNext ==
  \/ ProtoAcquire
  \/ SessionStep
  \/ SessRelay
  \/ WriterStep
  \/ ClientFrame
  \/ ReaderError
  \/ CtxCancel

ExitSpec ==
  /\ InitPlain
  /\ [][ExitNext]_vars
  /\ WF_vars(SessionStep)
  /\ WF_vars(WriterStep)
  /\ WF_vars(ReaderCancelled)
  /\ WF_vars(ProtoAcquire)

\* C39: once the context is cancelled or the transport has failed on a read
\* or a write, the session eventually exits: the teardown runs to its end,
\* and neither the reader nor the writer is left running.
SessionEventuallyExits ==
  (ctxDone \/ rPc = "done" \/ wPc = "failed")
    ~> (sPc = "exited" /\ rPc # "run" /\ wPc # "run")

\* a write failed while the session was bound to a device: the teardown has
\* removed both subscriptions and closed the queue, the handler has
\* returned and the reader has ended
UnboundAfterWriteErrorWitness ==
  /\ sPc = "exited"
  /\ wPc = "failed"
  /\ rPc = "done"
  /\ outClosed
  /\ unsubscribe # 0 /\ procUnsubscribe # 0
  /\ \A m \in Mgrs : Held(m) = {}

====
